---- MODULE Spec2Model ----
(***************************************************************************)
(* Model of the polymarket_agent round-lifecycle orchestrator              *)
(* (src/polymarket_agent/main.py), its risk guard (risk/guard.py), round   *)
(* scheduler (scheduler.py), paper-trade evaluation (paper_trading.py) and *)
(* the parts of the shared state (state.py) the orchestrator reads.        *)
(*                                                                         *)
(* Units.  Wall-clock time and tick timestamps are whole seconds.  Market  *)
(* odds and confidences are in hundredths (0.62 is 62).  Fill prices are   *)
(* in 1e-5 (PRICE_ONE is 1.0).  Money is in cents.  Costs and edges are in *)
(* basis points.  BTC prices are small integers.                           *)
(*                                                                         *)
(* The candle builder (candles.py) and the raw price-move check only feed  *)
(* the btc_candle_closed and price_change log lines and are not modelled.  *)
(*                                                                         *)
(* The specifications share the variables: Spec is the round loop of       *)
(* run(), SpecGuard is one RiskGuard under concurrent callers, SpecSettle  *)
(* is settle_round called directly; SpecScheduler, SpecWait, SpecMaterial, *)
(* SpecRouter and SpecPaper apply current_round, wait_until_activation,    *)
(* should_log_material_event, DecisionRouter.on_tick and                   *)
(* evaluate_paper_trade on their own.  SpecDefaultMinimum, SpecDrift and   *)
(* SpecLookup are the round loop with the net-edge gate at its default,    *)
(* with a drifting price, and with the round-open lookups answered in      *)
(* every way; SpecSleep runs the sleeps of wait_until_activation in tenths *)
(* of a second, SpecReview one call of ReviewClient.run, SpecTicks the two *)
(* tasks that call set_tick.                                               *)
(***************************************************************************)
EXTENDS Integers, Sequences, FiniteSets, TLC

\* Python's None: for an absent number, an absent string, an absent dict
None == -999999
NoneStr == "None"
NoEvent == << >>
NoWindow == << >>
NoCall == << >>

(***************************************************************************)
(* Configuration (config.py load_config).  The round length, the lead, the *)
(* cooldown and the minimum net edge are configured values scaled to the   *)
(* model; the others are the defaults of the code.                         *)
(***************************************************************************)
round_seconds == 4
activation_lead_seconds == 3
trade_cooldown_seconds == 1
paper_min_net_edge_bps == 100
default_min_net_edge_bps == 0
max_trades_per_round == 2
paper_trade_notional_usd == 2500
paper_edge_strength_to_bps == 1000
entry_slippage_bps == 50
max_slippage_bps == 200
gas_fee_usd_per_side == 5
adverse_selection_bps == 30
min_notional_usd == 100
dynamic_slippage_enabled == FALSE
dynamic_slippage_edge_factor_bps == 25
dynamic_slippage_confidence_factor_bps == 20
dynamic_slippage_expiry_factor_bps == 30
strategy_mode == "classic"
btc_updown_min_confidence_to_trade == 35
PRICE_ONE == 100000
SECONDS_PER_DAY == 86400

(***************************************************************************)
(* Bounds of the model.                                                    *)
(***************************************************************************)
MaxRounds == 2
MaxClockBack == 1
MaxCallers == 2
MaxSettleCalls == 3
MaxSettleTrades == 2
MaxTicks == 4
MaxSchedulerSeconds == 4
MaxRouterTicks == 2
MaxOverflow == 2
MaxLoneEvents == 2
MaxWrites == 2
MaxFeedAhead == 1

MaxTime == MaxRounds * round_seconds
RoundIds == 0 .. MaxRounds
\* the BTC prices the decision ticker delivers
BtcPrices == {100}
\* the odds snapshots the tracker publishes: <<yes_price, no_price>>
OddsSnapshots == {<<None, None>>, <<90, None>>, <<90, 10>>}
\* what a round-open lookup returns: a price or None
RoundOpenLookups == {None, 100}
\* what each round-open lookup of run() returns: a price of its own or None
BinanceOpenPrices == {None, 99}
ChainlinkOpenPrices == {None, 98}
Confidences == {57, 62}
Actions == {"BUY_YES", "BUY_NO"}

Max(a, b) == IF a >= b THEN a ELSE b
Min(a, b) == IF a <= b THEN a ELSE b
Abs(a) == IF a >= 0 THEN a ELSE -a

(***************************************************************************)
(* scheduler.py                                                            *)
(***************************************************************************)
\* Python's "//" on integers, for a divisor that is not 0
PyFloorDiv(a, b) == IF b > 0 THEN a \div b ELSE (-a) \div (-b)

\* a RoundScheduler: the dataclass holds the two configured integers only
RoundScheduler(seconds, lead) ==
    [round_seconds |-> seconds, activation_lead_seconds |-> lead]

current_round_of_ActivationFromStart(self, now_ts) ==
    IF self.round_seconds = 0 THEN NoWindow
    ELSE LET round_id == PyFloorDiv(now_ts, self.round_seconds)
             start_ts == round_id * self.round_seconds
             close_ts == start_ts + self.round_seconds
         IN  [round_id |-> round_id,
              start_ts |-> start_ts,
              close_ts |-> close_ts,
              activation_ts |-> start_ts + self.activation_lead_seconds]

\* RoundScheduler.current_round(now_ts); NoWindow stands for the
\* ZeroDivisionError "//" raises when round_seconds is 0
current_round_of(self, now_ts) ==
    IF self.round_seconds = 0 THEN NoWindow
    ELSE LET round_id == PyFloorDiv(now_ts, self.round_seconds)
             start_ts == round_id * self.round_seconds
             close_ts == start_ts + self.round_seconds
         IN  [round_id |-> round_id,
              start_ts |-> start_ts,
              close_ts |-> close_ts,
              activation_ts |-> close_ts - self.activation_lead_seconds]

\* current_round of the scheduler run() builds from the configuration
current_round(now_ts) ==
    current_round_of(RoundScheduler(round_seconds, activation_lead_seconds), now_ts)

\* the return condition of wait_until_activation for the clock value now_ts
InActivationWindow(now_ts) ==
    LET w == current_round(now_ts)
    IN  w.activation_ts <= now_ts /\ now_ts < w.close_ts

(***************************************************************************)
(* risk/guard.py.  A guard is [count |-> round id -> trades, last |-> the  *)
(* last execution timestamp or None].  A missing dict key reads as 0.      *)
(***************************************************************************)
GuardInit == [count |-> [r \in RoundIds |-> 0], last |-> None]

CooldownActive_NoCheck(guard, now_ts) == FALSE

\* f"trade_cooldown:{remaining:.2f}s" for a remaining time in whole seconds
CooldownReason(remaining) == "trade_cooldown:" \o ToString(remaining) \o ".00s"

CooldownActive(guard, now_ts) ==
    /\ guard.last # None
    /\ now_ts - guard.last < trade_cooldown_seconds

CapReached_OffByOne(guard, round_id) ==
    guard.count[round_id] > max_trades_per_round

CapReached(guard, round_id) ==
    guard.count[round_id] >= max_trades_per_round

evaluate_StrictCooldown(guard, round_id, now_ts) ==
    IF guard.last # None /\ now_ts - guard.last <= trade_cooldown_seconds
    THEN [allowed |-> FALSE,
          reason |-> CooldownReason(trade_cooldown_seconds - (now_ts - guard.last))]
    ELSE IF CapReached(guard, round_id)
         THEN [allowed |-> FALSE, reason |-> "max_trades_per_round"]
         ELSE [allowed |-> TRUE, reason |-> "ok"]

\* RiskGuard.evaluate
evaluate(guard, round_id, now_ts) ==
    IF CooldownActive(guard, now_ts)
    THEN [allowed |-> FALSE,
          reason |-> CooldownReason(trade_cooldown_seconds - (now_ts - guard.last))]
    ELSE IF CapReached(guard, round_id)
         THEN [allowed |-> FALSE, reason |-> "max_trades_per_round"]
         ELSE [allowed |-> TRUE, reason |-> "ok"]

record_execution(guard, round_id, now_ts) ==
    [count |-> [guard.count EXCEPT ![round_id] = @ + 1], last |-> now_ts]

(***************************************************************************)
(* paper_trading.py                                                        *)
(***************************************************************************)
INF_BPS == 1000000

\* PaperTradeSimulationConfig: the fields the slippage computation reads
PaperTradeSimulationConfig(entry, dynamic, edge_factor, confidence_factor, expiry_factor, cap) ==
    [entry_slippage_bps |-> entry,
     dynamic_slippage_enabled |-> dynamic,
     dynamic_slippage_edge_factor_bps |-> edge_factor,
     dynamic_slippage_confidence_factor_bps |-> confidence_factor,
     dynamic_slippage_expiry_factor_bps |-> expiry_factor,
     max_slippage_bps |-> cap]

\* run(): paper_simulation, built from the configuration
paper_simulation ==
    PaperTradeSimulationConfig(entry_slippage_bps, dynamic_slippage_enabled,
                               dynamic_slippage_edge_factor_bps,
                               dynamic_slippage_confidence_factor_bps,
                               dynamic_slippage_expiry_factor_bps,
                               max_slippage_bps)

\* the local `effective` of compute_effective_entry_slippage_bps just before
\* its return: the static slippage, plus the three dynamic terms when dynamic
\* slippage is enabled.  edge_strength and confidence are hundredths or None;
\* the result is in basis points (the terms are summed exactly, floored once).
effective_before_clamp(simulation, edge_strength, confidence, seconds_to_close, round_secs) ==
    IF ~simulation.dynamic_slippage_enabled
    THEN simulation.entry_slippage_bps
    ELSE LET edge == Max(0, IF edge_strength = None THEN 0 ELSE edge_strength)
             conf == IF confidence = None THEN 0 ELSE confidence
             expiry_on == seconds_to_close # None /\ round_secs # None /\ round_secs > 0
             rs == IF expiry_on THEN round_secs ELSE 1
             bounded_seconds == IF expiry_on THEN Min(Max(seconds_to_close, 0), round_secs) ELSE 1
             dyn == (edge * simulation.dynamic_slippage_edge_factor_bps * rs
                     + Max(0, conf - 50) * 2 * simulation.dynamic_slippage_confidence_factor_bps * rs
                     + (rs - bounded_seconds) * simulation.dynamic_slippage_expiry_factor_bps * 100)
                    \div (100 * rs)
         IN  simulation.entry_slippage_bps + dyn

compute_effective_entry_slippage_bps_of_NoCap(simulation, edge_strength, confidence, seconds_to_close, round_secs) ==
    Max(effective_before_clamp(simulation, edge_strength, confidence, seconds_to_close, round_secs), 0)

\* compute_effective_entry_slippage_bps(simulation, ...)
compute_effective_entry_slippage_bps_of(simulation, edge_strength, confidence, seconds_to_close, round_secs) ==
    Min(Max(effective_before_clamp(simulation, edge_strength, confidence, seconds_to_close, round_secs), 0),
        simulation.max_slippage_bps)

\* the call of run(), with paper_simulation
compute_effective_entry_slippage_bps(edge_strength, confidence, seconds_to_close, round_secs) ==
    compute_effective_entry_slippage_bps_of(paper_simulation, edge_strength, confidence,
                                            seconds_to_close, round_secs)

estimate_expected_edge_bps(edge_strength, confidence, edge_strength_to_bps) ==
    LET edge == Max(0, IF edge_strength = None THEN 0 ELSE edge_strength)
        conf == Min(Max(IF confidence = None THEN 0 ELSE confidence, 0), 100)
        confidence_weight == Max(0, (conf - 50) * 2)
    IN  IF edge <= 0 THEN 0
        ELSE (edge * Max(0, edge_strength_to_bps) * confidence_weight) \div 10000

\* estimate_total_cost_bps(notional_usd, simulation, ...): fee is
\* simulation.gas_fee_usd_per_side in cents, adverse is
\* simulation.adverse_selection_bps; float("inf") is INF_BPS
estimate_total_cost_bps_of(notional_usd, fee, adverse, effective_entry_slippage_bps) ==
    IF notional_usd <= 0 THEN INF_BPS
    ELSE LET gas_fees_usd == fee * 2
             gas_cost_bps == (gas_fees_usd * 10000) \div notional_usd
         IN  Max(0, effective_entry_slippage_bps)
             + Max(0, adverse)
             + Max(0, gas_cost_bps)

\* the call of run(), with paper_simulation
estimate_total_cost_bps(notional_usd, effective_entry_slippage_bps) ==
    estimate_total_cost_bps_of(notional_usd, gas_fee_usd_per_side, adverse_selection_bps,
                               effective_entry_slippage_bps)

net_edge_below_threshold_NegativeOnly(min_net_edge_bps, estimated_net_edge_bps) ==
    min_net_edge_bps > 0 /\ estimated_net_edge_bps < 0

\* run(): the condition of the net-edge gate
net_edge_below_threshold(min_net_edge_bps, estimated_net_edge_bps) ==
    min_net_edge_bps > 0 /\ estimated_net_edge_bps < min_net_edge_bps

\* reference_price in hundredths, result in 1e-5
apply_entry_execution(action, reference_price, slippage_bps) ==
    LET bps == IF slippage_bps # None THEN slippage_bps ELSE entry_slippage_bps
        worsened == (reference_price * (10000 + bps)) \div 10
    IN  IF reference_price <= 0 THEN reference_price * 1000
        ELSE IF action = "BUY_YES" THEN Min(PRICE_ONE, worsened)
        ELSE IF action = "BUY_NO" THEN Max(0, worsened)
        ELSE reference_price * 1000

\* PaperTradeResult: the dataclass has exactly these seven fields
PaperTradeResult(outcome, market_outcome, return_pct, gross_return_pct, total_cost_pct, gas_fees_usd, adverse_selection_bps_applied) ==
    [outcome |-> outcome,
     market_outcome |-> market_outcome,
     return_pct |-> return_pct,
     gross_return_pct |-> gross_return_pct,
     total_cost_pct |-> total_cost_pct,
     gas_fees_usd |-> gas_fees_usd,
     adverse_selection_bps_applied |-> adverse_selection_bps_applied]

InvalidResult(market_outcome) ==
    PaperTradeResult("invalid", market_outcome, 0, 0, 0, 0, 0)

\* market_outcome.strip().lower() on the strings the model passes
NormalizeOutcome(market_outcome) ==
    CASE market_outcome = " YES " -> "yes"
      [] market_outcome = "No" -> "no"
      [] OTHER -> market_outcome

\* entry_price in 1e-5, notional in cents; the three returns are in basis
\* points (percent * 100), floored; the sign of the net return is exact.
evaluate_paper_trade(action, entry_price, market_outcome, notional_usd) ==
    IF entry_price <= 0 \/ entry_price >= PRICE_ONE THEN InvalidResult(market_outcome)
    ELSE IF notional_usd < min_notional_usd THEN InvalidResult(market_outcome)
    ELSE
      LET normalized_outcome == NormalizeOutcome(market_outcome)
          payout_per_share ==
              IF normalized_outcome = "push" THEN entry_price
              ELSE IF action = "BUY_YES"
                   THEN (IF normalized_outcome = "yes" THEN PRICE_ONE ELSE 0)
                   ELSE (IF normalized_outcome = "no" THEN PRICE_ONE ELSE 0)
          gross_num == (payout_per_share - entry_price) * 10000
          gross_return == gross_num \div entry_price
          gas_fees_usd == gas_fee_usd_per_side * 2
          gas_cost_pct == (gas_fees_usd * 10000) \div Max(notional_usd, 1)
          adverse_selection_pct == 0
          total_cost_pct == gas_cost_pct + adverse_selection_pct
          net_sign == (payout_per_share - entry_price) * Max(notional_usd, 1)
                      - gas_fees_usd * entry_price
          outcome == IF net_sign > 0 THEN "win"
                     ELSE IF net_sign < 0 THEN "loss" ELSE "flat"
      IN  IF normalized_outcome \notin {"yes", "no", "push"}
          THEN InvalidResult(market_outcome)
          ELSE IF action \notin Actions /\ normalized_outcome # "push"
          THEN InvalidResult(market_outcome)
          ELSE PaperTradeResult(outcome, normalized_outcome,
                                gross_return - total_cost_pct,
                                gross_return, total_cost_pct, gas_fees_usd, 0)

(***************************************************************************)
(* main.py: helpers                                                        *)
(***************************************************************************)
_market_outcome_from_btc_prices(round_open_price, round_close_price) ==
    IF round_close_price > round_open_price THEN "yes"
    ELSE IF round_close_price < round_open_price THEN "no"
    ELSE "push"

_expected_outcome_from_reference(current_btc_price, price_to_beat_btc) ==
    IF price_to_beat_btc = None THEN "unknown"
    ELSE IF current_btc_price > price_to_beat_btc THEN "yes"
    ELSE IF current_btc_price < price_to_beat_btc THEN "no"
    ELSE "push"

DayOf(ts) == ts \div SECONDS_PER_DAY

\* dict.get(key): a missing key reads as None
Get(rec, key) == IF key \in DOMAIN rec THEN rec[key] ELSE None

MATERIAL_THRESHOLD_PCT == 3

MetricMoved_StrictThreshold(current, previous, key) ==
    LET current_value == Get(current, key)
        previous_value == Get(previous, key)
    IN  IF current_value = None THEN FALSE
        ELSE IF previous_value = None THEN TRUE
        ELSE IF previous_value = 0 THEN current_value # 0
        ELSE Abs(current_value - previous_value) * 100
                 > MATERIAL_THRESHOLD_PCT * Abs(previous_value)

\* one metric key of should_log_material_event
MetricMoved(current, previous, key) ==
    LET current_value == Get(current, key)
        previous_value == Get(previous, key)
    IN  IF current_value = None THEN FALSE
        ELSE IF previous_value = None THEN TRUE
        ELSE IF previous_value = 0 THEN current_value # 0
        ELSE Abs(current_value - previous_value) * 100
                 >= MATERIAL_THRESHOLD_PCT * Abs(previous_value)

should_log_material_event(current, previous, identity_keys, metric_keys) ==
    IF previous = NoEvent THEN TRUE
    ELSE \/ \E key \in identity_keys : Get(current, key) # Get(previous, key)
         \/ \E key \in metric_keys : MetricMoved(current, previous, key)

should_log_discrete_event(current, previous, identity_keys) ==
    IF previous = NoEvent THEN TRUE
    ELSE \E key \in identity_keys : Get(current, key) # Get(previous, key)

OpportunityMetricKeys == {"price", "polymarket_yes_price", "polymarket_no_price"}
OddsFilterMetricKeys == {"price", "yes_price", "no_price"}
NetEdgeMetricKeys == {"price", "expected_edge_bps", "estimated_total_cost_bps",
                      "estimated_net_edge_bps"}
MaterialIdentityKeys == {"round_id", "action"}
DiscreteIdentityKeys == {"round_id", "action", "reason"}

(***************************************************************************)
(* main.py: settle_round                                                   *)
(***************************************************************************)
DailyDefault ==
    [closed_trades |-> 0, wins |-> 0, losses |-> 0, invalid |-> 0,
     realized_pnl_usd |-> 0]

update_daily_totals_NoInvalidCount(daily_totals, day_utc, pnl_usd, outcome) ==
    LET daily == IF day_utc \in DOMAIN daily_totals
                 THEN daily_totals[day_utc] ELSE DailyDefault
        updated ==
            [closed_trades |-> daily.closed_trades + 1,
             wins |-> daily.wins + (IF outcome = "win" THEN 1 ELSE 0),
             losses |-> daily.losses + (IF outcome = "loss" THEN 1 ELSE 0),
             invalid |-> daily.invalid,
             realized_pnl_usd |-> daily.realized_pnl_usd + pnl_usd]
    IN  [d \in (DOMAIN daily_totals) \cup {day_utc} |->
            IF d = day_utc THEN updated ELSE daily_totals[d]]

update_daily_totals(daily_totals, day_utc, pnl_usd, outcome) ==
    LET daily == IF day_utc \in DOMAIN daily_totals
                 THEN daily_totals[day_utc] ELSE DailyDefault
        updated ==
            [closed_trades |-> daily.closed_trades + 1,
             wins |-> daily.wins + (IF outcome = "win" THEN 1 ELSE 0),
             losses |-> daily.losses + (IF outcome = "loss" THEN 1 ELSE 0),
             invalid |-> daily.invalid + (IF outcome = "invalid" THEN 1 ELSE 0),
             realized_pnl_usd |-> daily.realized_pnl_usd + pnl_usd]
    IN  [d \in (DOMAIN daily_totals) \cup {day_utc} |->
            IF d = day_utc THEN updated ELSE daily_totals[d]]

\* the paper_trade_closed entry: the fields of the closing dict the properties
\* read, with the day-level running totals; event is the message of the
\* event the same dict is published with
Closing(event, trade, round_id, close_ts, close_btc_price, round_open, exit_price, market_outcome, outcome, return_pct, pnl_usd, day_utc, daily) ==
    [type |-> "paper_trade_closed",
     event |-> event,
     id |-> trade.id,
     round_id |-> round_id,
     action |-> trade.action,
     entry_price |-> trade.entry_price,
     exit_price |-> exit_price,
     entry_ts |-> trade.entry_ts,
     exit_ts |-> close_ts,
     btc_round_open_price |-> round_open,
     btc_round_close_price |-> close_btc_price,
     market_outcome |-> market_outcome,
     outcome |-> outcome,
     return_pct |-> return_pct,
     pnl_usd |-> pnl_usd,
     day_utc |-> day_utc,
     day_closed_trades |-> daily.closed_trades,
     day_wins |-> daily.wins,
     day_losses |-> daily.losses,
     day_invalid |-> daily.invalid,
     day_realized_pnl_usd |-> daily.realized_pnl_usd]

\* the attributes settle_round reads from the PaperTradeResult
ResultAttributesRead ==
    {"market_outcome", "outcome", "return_pct", "gross_return_pct",
     "total_cost_pct", "gas_fees_usd", "adverse_selection_bps_applied",
     "gross_pnl_usd", "pnl_usd"}

\* the loop over open_paper_trades; acc carries the local list remaining,
\* the totals (mutated in place) and the entries logged so far.
\* Reading an attribute the result object does not have raises
\* AttributeError, which leaves the loop and settle_round.
RECURSIVE SettleLoop(_, _, _, _, _, _, _)
SettleLoop(trades, i, round_id, close_btc_price, close_ts, round_open, acc) ==
    IF i > Len(trades) THEN acc
    ELSE
      LET trade == trades[i]
          day_utc == DayOf(close_ts)
      IN  IF trade.round_id # round_id
          THEN SettleLoop(trades, i + 1, round_id, close_btc_price, close_ts, round_open,
                          [acc EXCEPT !.remaining = Append(@, trade)])
          ELSE IF round_open = None
          THEN LET totals == update_daily_totals(acc.daily, day_utc, 0, "invalid")
                   closing == Closing("paper_trade_closed_without_round_open", trade,
                                      round_id, close_ts, close_btc_price, None,
                                      trade.entry_price, "unknown", "invalid", 0, 0,
                                      day_utc, totals[day_utc])
               IN  SettleLoop(trades, i + 1, round_id, close_btc_price, close_ts, round_open,
                       [acc EXCEPT !.daily = totals,
                                   !.entries = Append(@, closing)])
          ELSE LET market_outcome == _market_outcome_from_btc_prices(round_open, close_btc_price)
                   result == evaluate_paper_trade(trade.action, trade.entry_price,
                                                  market_outcome, trade.notional_usd)
                   settlement_price ==
                       IF market_outcome = "push" THEN trade.entry_price
                       ELSE IF \/ (trade.action = "BUY_YES" /\ market_outcome = "yes")
                               \/ (trade.action = "BUY_NO" /\ market_outcome = "no")
                            THEN PRICE_ONE ELSE 0
               IN  IF ~(ResultAttributesRead \subseteq DOMAIN result)
                   THEN [acc EXCEPT !.raised = TRUE]
                   ELSE LET totals == update_daily_totals(acc.daily, day_utc,
                                                          result.pnl_usd, result.outcome)
                            closing == Closing("paper_trade_closed", trade, round_id, close_ts,
                                               close_btc_price, round_open, settlement_price,
                                               result.market_outcome, result.outcome,
                                               result.return_pct, result.pnl_usd,
                                               day_utc, totals[day_utc])
                        IN  SettleLoop(trades, i + 1, round_id, close_btc_price, close_ts,
                                round_open,
                                [acc EXCEPT !.daily = totals,
                                            !.entries = Append(@, closing)])

\* settle_round: open_paper_trades is replaced by remaining only when the
\* loop ran to its end
settle_round(round_id, close_btc_price, close_ts, round_open, open_trades, daily_totals) ==
    LET acc == SettleLoop(open_trades, 1, round_id, close_btc_price, close_ts, round_open,
                          [raised |-> FALSE, remaining |-> << >>, daily |-> daily_totals,
                           entries |-> << >>])
    IN  [raised |-> acc.raised,
         open |-> IF acc.raised THEN open_trades ELSE acc.remaining,
         daily |-> acc.daily,
         entries |-> acc.entries]

(***************************************************************************)
(* decision.py and strategies/.  Scores, confidences, returns, z-scores,   *)
(* odds and the Kelly fraction are in 1e-4 (UNIT is 1.0); trade sizes are  *)
(* in cents.  The price deque is kept by its length: what the prices    *)
(* yield, return_short and zscore, comes with the tick, and _build_state   *)
(* decides from the length whether each is present.                        *)
(***************************************************************************)
UNIT == 10000
btc_updown_min_score_to_trade == 2000
btc_updown_max_entry_price == 8500
btc_updown_kelly_fraction == 3000
btc_updown_max_trade_size_usd == 10000
btc_updown_min_trade_size_usd == 100

_clamp(value, low, high) == Max(low, Min(high, value))

SignalScore(score, confidence, available) ==
    [score |-> score, confidence |-> confidence, available |-> available]

\* BTCUpdownConfig weight_*, in hundredths
SignalWeights ==
    [time_decay |-> 20, orderbook_imbalance |-> 20, trade_momentum |-> 15,
     btc_price_movement |-> 20, price_inefficiency |-> 20, feed_comparison |-> 5]

_signal_time_decay(state) ==
    IF state.seconds_to_close = None \/ state.round_seconds = None
    THEN SignalScore(0, 1000, FALSE)
    ELSE IF state.return_short = None
    THEN SignalScore(0, 1000, FALSE)
    ELSE LET closeness ==
                 UNIT - _clamp((state.seconds_to_close * UNIT)
                                   \div Max(state.round_seconds, 1), 0, UNIT)
         IN  IF closeness < 6000
             THEN SignalScore(0, 1500, TRUE)
             ELSE SignalScore(_clamp(state.return_short * 80, -UNIT, UNIT),
                              _clamp(3000 + closeness \div 2, 0, UNIT), TRUE)

_signal_orderbook_imbalance(state) ==
    IF state.orderbook_imbalance = None
    THEN SignalScore(0, 1000, FALSE)
    ELSE LET score == _clamp(state.orderbook_imbalance, -UNIT, UNIT)
         IN  SignalScore(score, _clamp(3000 + Abs(score) \div 2, 0, UNIT), TRUE)

_signal_trade_momentum(state) ==
    IF state.trade_momentum = None
    THEN SignalScore(0, 1000, FALSE)
    ELSE LET score == _clamp(state.trade_momentum, -UNIT, UNIT)
         IN  SignalScore(score, _clamp(2500 + (Abs(score) * 6) \div 10, 0, UNIT), TRUE)

_signal_btc_price_movement(state) ==
    IF state.return_short = None
    THEN SignalScore(0, 1000, FALSE)
    ELSE IF Abs(state.return_short) < 1
    THEN SignalScore(0, 1500, TRUE)
    ELSE SignalScore(_clamp(state.return_short * 50, -UNIT, UNIT),
                     _clamp(3000 + Abs(state.return_short) * 250, 0, 9500), TRUE)

_signal_price_inefficiency(state) ==
    IF state.zscore = None \/ state.polymarket_yes_price = None
    THEN SignalScore(0, 1000, FALSE)
    ELSE LET fair_yes == _clamp(5000 - (state.zscore * 8) \div 100, 500, 9500)
             mispricing == fair_yes - state.polymarket_yes_price
         IN  IF Abs(mispricing) < 500
             THEN SignalScore(0, 1500, TRUE)
             ELSE SignalScore(_clamp(mispricing * 5, -UNIT, UNIT),
                              _clamp(2500 + Abs(mispricing) * 2, 0, 9500), TRUE)

\* feed_divergence_bps is in whole basis points
_signal_feed_comparison(state) ==
    IF state.feed_divergence_bps = None
    THEN SignalScore(0, 2000, FALSE)
    ELSE IF state.feed_divergence_bps > 5
    THEN SignalScore(0, 500, TRUE)
    ELSE IF state.return_short = None
    THEN SignalScore(0, 2000, TRUE)
    ELSE SignalScore(IF state.return_short > 0 THEN 1500
                     ELSE IF state.return_short < 0 THEN -1500 ELSE 0,
                     7500, TRUE)

SignalKeys == DOMAIN SignalWeights

RECURSIVE WeightedSum(_, _, _)
WeightedSum(signals, field, keys) ==
    IF keys = {} THEN 0
    ELSE LET key == CHOOSE k \in keys : TRUE
         IN  signals[key][field] * SignalWeights[key]
                 + WeightedSum(signals, field, keys \ {key})

\* BTCUpdownStrategy._calculate_composite
_calculate_composite(signals) ==
    LET weight_total == 100
        score == WeightedSum(signals, "score", SignalKeys) \div weight_total
        up == Cardinality({k \in SignalKeys : signals[k].score > 1000})
        down == Cardinality({k \in SignalKeys : signals[k].score < -1000})
        directional == up + down
        agreeing == up - down
        confidence0 == WeightedSum(signals, "confidence", SignalKeys) \div weight_total
        confidence == IF directional > 0
                      THEN _clamp(confidence0 + (1500 * Abs(agreeing)) \div directional,
                                  0, UNIT)
                      ELSE confidence0
    IN  <<_clamp(score, -UNIT, UNIT), _clamp(confidence, 0, UNIT)>>

\* BTCUpdownStrategy._calculate_position_size
_calculate_position_size(confidence, entry_price) ==
    IF entry_price <= 0 \/ entry_price >= UNIT THEN 0
    ELSE LET p == _clamp(confidence, 100, 9900)
             q == UNIT - p
             kelly0 == p - (q * entry_price) \div (UNIT - entry_price)
             kelly == (Max(0, kelly0) * btc_updown_kelly_fraction) \div UNIT
         IN  Min(btc_updown_max_trade_size_usd,
                 (kelly * btc_updown_max_trade_size_usd) \div UNIT)

BuyNoShareAbove75_FromThreeQuarters(recent_actions) ==
    /\ Len(recent_actions) > 0
    /\ 100 * Cardinality({i \in DOMAIN recent_actions : recent_actions[i] = "BUY_NO"})
           >= 75 * Len(recent_actions)

\* BTCUpdownStrategy._buy_no_share > 0.75
BuyNoShareAbove75(recent_actions) ==
    /\ Len(recent_actions) > 0
    /\ 100 * Cardinality({i \in DOMAIN recent_actions : recent_actions[i] = "BUY_NO"})
           > 75 * Len(recent_actions)

\* no candidate: evaluate_shadow returned None
NoCandidate ==
    [candidate |-> FALSE, action |-> NoneStr, confidence |-> None, score |-> None]

\* BTCUpdownStrategy.evaluate_shadow, without the append to _recent_actions
evaluate_shadow(state, recent_actions) ==
    LET signals == [time_decay |-> _signal_time_decay(state),
                    orderbook_imbalance |-> _signal_orderbook_imbalance(state),
                    trade_momentum |-> _signal_trade_momentum(state),
                    btc_price_movement |-> _signal_btc_price_movement(state),
                    price_inefficiency |-> _signal_price_inefficiency(state),
                    feed_comparison |-> _signal_feed_comparison(state)]
        composite == _calculate_composite(signals)
        composite_score == composite[1]
        composite_confidence == composite[2]
        action == IF composite_score > 0 THEN "BUY_YES" ELSE "BUY_NO"
        required_score ==
            btc_updown_min_score_to_trade
                + (IF action = "BUY_NO" /\ BuyNoShareAbove75(recent_actions)
                   THEN 500 ELSE 0)
        entry_price == IF action = "BUY_YES" THEN state.polymarket_yes_price
                       ELSE state.polymarket_no_price
        size_usd == _calculate_position_size(
                        composite_confidence,
                        IF entry_price # None THEN entry_price ELSE 5000)
    IN  IF composite_confidence < btc_updown_min_confidence_to_trade * 100
        THEN NoCandidate
        ELSE IF Abs(composite_score) < required_score THEN NoCandidate
        ELSE IF entry_price # None /\ entry_price > btc_updown_max_entry_price
        THEN NoCandidate
        ELSE IF size_usd < btc_updown_min_trade_size_usd THEN NoCandidate
        ELSE [candidate |-> TRUE, action |-> action,
              confidence |-> composite_confidence, score |-> composite_score]

\* "self._recent_actions.append(action)" on a deque(maxlen=40)
AppendRecent(recent_actions, action) ==
    IF Len(recent_actions) < 40 THEN Append(recent_actions, action)
    ELSE Append(Tail(recent_actions), action)

\* on_tick returned None
NoRouterDecision == [action |-> NoneStr, strategy |-> NoneStr, confidence |-> None]

RouterDecision(action, strategy, confidence) ==
    [action |-> action, strategy |-> strategy, confidence |-> confidence]

\* MomentumStrategy.evaluate
MomentumStrategy(state) ==
    IF state.return_short = None THEN NoRouterDecision
    ELSE IF state.return_short > 12 THEN RouterDecision("BUY_YES", "momentum", 6200)
    ELSE IF state.return_short < -12 THEN RouterDecision("BUY_NO", "momentum", 6200)
    ELSE NoRouterDecision

\* MeanReversionStrategy.evaluate
MeanReversionStrategy(state) ==
    IF state.zscore = None THEN NoRouterDecision
    ELSE IF state.zscore > 17500 THEN RouterDecision("BUY_NO", "mean_reversion", 5700)
    ELSE IF state.zscore < -17500 THEN RouterDecision("BUY_YES", "mean_reversion", 5700)
    ELSE NoRouterDecision

\* DecisionRouter._build_state and state.update(extra_state): return_short
\* needs 8 prices and a non-zero price 8 ticks back, zscore needs 30 prices
\* and a non-zero deviation (the tick carries None otherwise)
_build_state(prices_len, tick, extra_state) ==
    [return_short |-> IF prices_len >= 8 THEN tick.return_short ELSE None,
     zscore |-> IF prices_len >= 30 THEN tick.zscore ELSE None,
     seconds_to_close |-> extra_state.seconds_to_close,
     round_seconds |-> extra_state.round_seconds,
     polymarket_yes_price |-> extra_state.polymarket_yes_price,
     polymarket_no_price |-> extra_state.polymarket_no_price,
     orderbook_imbalance |-> extra_state.orderbook_imbalance,
     trade_momentum |-> extra_state.trade_momentum,
     feed_divergence_bps |-> extra_state.feed_divergence_bps]

ShadowGoesLive_IgnoresMode(self) == self.btc_updown_live_enabled

ShadowGoesLive_IgnoresLiveFlag(self) == self.strategy_mode = "btc_updown"

\* the condition under which on_tick returns the shadow candidate
ShadowGoesLive(self) ==
    self.strategy_mode = "btc_updown" /\ self.btc_updown_live_enabled

\* DecisionRouter.on_tick: the decision returned and the router afterwards
on_tick(self, tick, extra_state) ==
    LET prices_len == Min(self.prices_len + 1, 240)
        state == _build_state(prices_len, tick, extra_state)
        evaluated == self.btc_updown_shadow_mode \/ self.strategy_mode = "btc_updown"
        shadow == IF evaluated THEN evaluate_shadow(state, self.recent_actions)
                  ELSE NoCandidate
        after == [self EXCEPT
                     !.prices_len = prices_len,
                     !.recent_actions = IF shadow.candidate
                                        THEN AppendRecent(@, shadow.action) ELSE @]
        momentum == MomentumStrategy(state)
        decision ==
            IF shadow.candidate /\ ShadowGoesLive(self)
            THEN RouterDecision(shadow.action, "btc_updown", shadow.confidence)
            ELSE IF self.strategy_mode = "btc_updown" THEN NoRouterDecision
            ELSE IF momentum # NoRouterDecision THEN momentum
            ELSE MeanReversionStrategy(state)
    IN  [decision |-> decision, shadow |-> shadow, router |-> after]

(***************************************************************************)
(* state.py: AgentState.  A history entry is the number of its arrival; a  *)
(* list handed to a caller is a copy (its own items) or an alias of an     *)
(* attribute of the state.                                                 *)
(***************************************************************************)
EVENTS_MAXLEN == 200
PAPER_TRADES_MAXLEN == 500

deque_append_Unbounded(d, x, maxlen) == Append(d, x)

\* collections.deque(maxlen=...).append: a full deque drops its oldest entry
deque_append(d, x, maxlen) ==
    IF Len(d) >= maxlen THEN Append(Tail(d), x) ELSE Append(d, x)

\* list(xs): a new list with the items xs has now
list_copy(xs) == [alias |-> NoneStr, items |-> xs]

\* AgentState.__init__
AgentState ==
    [lock |-> NoneStr,
     active_round_id |-> None,
     round_close_ts |-> None,
     latest_price |-> None,
     latest_tick_ts |-> None,
     polymarket_yes_price |-> None,
     polymarket_no_price |-> None,
     polymarket_last_update_ts |-> None,
     events |-> << >>,
     paper_trades |-> << >>]

set_round(self, round_id, close_ts) ==
    [self EXCEPT !.active_round_id = round_id, !.round_close_ts = close_ts]

set_tick(self, price, tick_ts) ==
    [self EXCEPT !.latest_price = price, !.latest_tick_ts = tick_ts]

set_polymarket_odds(self, yes_price, no_price, update_ts) ==
    [self EXCEPT !.polymarket_yes_price = yes_price,
                 !.polymarket_no_price = no_price,
                 !.polymarket_last_update_ts = update_ts]

get_polymarket_odds_snapshot(self) ==
    [yes_price |-> self.polymarket_yes_price,
     no_price |-> self.polymarket_no_price,
     last_update_ts |-> self.polymarket_last_update_ts]

add_event(self, event) ==
    [self EXCEPT !.events = deque_append(@, event, EVENTS_MAXLEN)]

add_paper_trade_entry(self, entry) ==
    [self EXCEPT !.paper_trades = deque_append(@, entry, PAPER_TRADES_MAXLEN)]

snapshot(self) ==
    [active_round_id |-> self.active_round_id,
     round_close_ts |-> self.round_close_ts,
     latest_price |-> self.latest_price,
     latest_tick_ts |-> self.latest_tick_ts,
     polymarket_yes_price |-> self.polymarket_yes_price,
     polymarket_no_price |-> self.polymarket_no_price,
     polymarket_last_update_ts |-> self.polymarket_last_update_ts,
     paper_trades |-> list_copy(self.paper_trades),
     events |-> list_copy(self.events)]

\* the statements of a method's `with self._lock:` body in source order:
\* the attribute each assigns (writers) or the key each reads (readers)
Statements(name) ==
    CASE name = "set_round" -> <<"active_round_id", "round_close_ts">>
      [] name = "set_tick" -> <<"latest_price", "latest_tick_ts">>
      [] name = "set_polymarket_odds" ->
             <<"polymarket_yes_price", "polymarket_no_price", "polymarket_last_update_ts">>
      [] name = "add_event" -> <<"events">>
      [] name = "add_paper_trade_entry" -> <<"paper_trades">>
      [] name = "get_polymarket_odds_snapshot" ->
             <<"yes_price", "no_price", "last_update_ts">>
      [] name = "snapshot" ->
             <<"active_round_id", "round_close_ts", "latest_price", "latest_tick_ts",
               "polymarket_yes_price", "polymarket_no_price",
               "polymarket_last_update_ts", "paper_trades", "events">>

IsWriter(name) ==
    name \in {"set_round", "set_tick", "set_polymarket_odds", "add_event",
              "add_paper_trade_entry"}

\* the state a writer's body leaves when it runs alone
WriterEffect(self, call) ==
    CASE call.name = "set_round" -> set_round(self, call.round_id, call.close_ts)
      [] call.name = "set_tick" -> set_tick(self, call.price, call.tick_ts)
      [] call.name = "set_polymarket_odds" ->
             set_polymarket_odds(self, call.yes_price, call.no_price, call.update_ts)
      [] call.name = "add_event" -> add_event(self, call.event)
      [] call.name = "add_paper_trade_entry" -> add_paper_trade_entry(self, call.entry)

\* the dict a reader's body returns when it runs alone
ReaderResult(self, call) ==
    IF call.name = "snapshot" THEN snapshot(self) ELSE get_polymarket_odds_snapshot(self)

LockFree_NoLock(self) == TRUE

\* `with self._lock:` can be entered
LockFree(self) == self.lock = NoneStr

(***************************************************************************)
(* State                                                                   *)
(***************************************************************************)
VARIABLES
    now,                              \* time.time()
    clock_back,                       \* backward clock adjustments so far
    pc,                               \* position of run(): waiting, woken, active, crashed
    window,                           \* the RoundWindow wait_until_activation returned
    last_round_executed,
    round_open_btc_price,
    round_open_btc_price_source,
    risk_guard,                       \* RiskGuard._trade_count_by_round, _last_trade_ts
    kill_switch_enabled,              \* AgentState._kill_switch_enabled
    open_paper_trades,
    daily_trade_totals,
    last_logged_opportunity,
    last_logged_odds_filter_blocked,
    last_logged_risk_blocked,
    last_logged_net_edge_blocked,
    next_id,                          \* the next fresh trade id (uuid4)
    paper_log,                        \* paper_trade_opened / paper_trade_closed entries logged
    executor_calls,                   \* round id -> executor.execute calls
    recorded,                         \* record_execution calls: per round, and the last time
    round_activated_count,            \* round id -> round_activated events
    review_queue,                     \* round ids handed to enqueue_market_close_review
    ticks,                            \* ticks the loop has consumed
    caller_pc,                        \* guard callers: idle, allowed
    caller_call,                      \* guard callers: arguments and result of evaluate
    settle_calls,                     \* round ids of the direct settle_round calls so far
    last_settle,                      \* the last direct settle_round call and what it did
    scheduler,                        \* the RoundScheduler under test
    round_call,                       \* the last current_round call: now_ts and the window
    wait_call,                        \* wait_until_activation: position, window, now_ts
    material_call,                    \* should_log_material_event: arguments and result
    router_call,                      \* DecisionRouter.on_tick: arguments and result
    paper_call,                       \* a paper_trading.py function: arguments and result
    agent_state,                      \* state.py: the AgentState singleton
    threads                           \* each task using agent_state: its method call in progress

clock_vars == <<now, clock_back>>
loop_vars == <<pc, window, last_round_executed, round_open_btc_price,
               round_open_btc_price_source,
               last_logged_opportunity, last_logged_odds_filter_blocked,
               last_logged_risk_blocked, last_logged_net_edge_blocked,
               round_activated_count, review_queue, ticks>>
trade_vars == <<open_paper_trades, daily_trade_totals, next_id, paper_log>>
guard_vars == <<risk_guard, executor_calls, recorded>>
caller_vars == <<caller_pc, caller_call>>
settle_vars == <<settle_calls, last_settle>>
call_vars == <<scheduler, round_call, wait_call, material_call, router_call, paper_call>>
state_vars == <<agent_state, threads>>

run_vars == <<clock_vars, loop_vars, trade_vars, guard_vars, kill_switch_enabled,
              caller_vars, settle_vars, call_vars>>

vars == <<run_vars, state_vars>>

Callers == 1 .. MaxCallers

\* the tasks of the service that call agent_state
Threads == {"price_feed", "odds_tracker", "orchestrator", "reader"}

\* a task outside agent_state: no statement executed, writes made so far,
\* the dict its last read returned
ThreadIdle == [pc |-> 0, call |-> NoCall, writes |-> 0, result |-> NoCall]

\* the state after construction, with the clock at now_ts
InitRunAt(now_ts) ==
    /\ now = now_ts
    /\ clock_back = 0
    /\ pc = "waiting"
    /\ window = NoWindow
    /\ last_round_executed = None
    /\ round_open_btc_price = None
    /\ round_open_btc_price_source = NoneStr
    /\ risk_guard = GuardInit
    /\ kill_switch_enabled = FALSE
    /\ open_paper_trades = << >>
    /\ daily_trade_totals = << >>
    /\ last_logged_opportunity = NoEvent
    /\ last_logged_odds_filter_blocked = NoEvent
    /\ last_logged_risk_blocked = NoEvent
    /\ last_logged_net_edge_blocked = NoEvent
    /\ next_id = 1
    /\ paper_log = << >>
    /\ executor_calls = [r \in RoundIds |-> 0]
    /\ recorded = [count |-> [r \in RoundIds |-> 0], last |-> None]
    /\ round_activated_count = [r \in RoundIds |-> 0]
    /\ review_queue = << >>
    /\ ticks = 0
    /\ caller_pc = [c \in Callers |-> "idle"]
    /\ caller_call = [c \in Callers |-> NoCall]
    /\ settle_calls = << >>
    /\ last_settle = NoCall
    /\ agent_state = AgentState
    /\ threads = [t \in Threads |-> ThreadIdle]

InitRun == InitRunAt(0)

\* no scheduler or pure-function call is in progress
WaitIdle == [pc |-> "idle", window |-> NoWindow, now_ts |-> None]

InitCalls ==
    /\ scheduler = RoundScheduler(round_seconds, activation_lead_seconds)
    /\ round_call = NoCall
    /\ wait_call = WaitIdle
    /\ material_call = NoCall
    /\ router_call = NoCall
    /\ paper_call = NoCall

Init == InitRun /\ InitCalls

(***************************************************************************)
(* Environment: the wall clock and the admin API                           *)
(***************************************************************************)
ClockAdvance ==
    /\ now < MaxTime
    /\ now' = now + 1
    /\ UNCHANGED <<state_vars, clock_back, loop_vars, trade_vars, guard_vars,
                   kill_switch_enabled, caller_vars, settle_vars, call_vars>>

\* a backward adjustment of the wall clock by one second
ClockBack ==
    /\ now > 0
    /\ clock_back < MaxClockBack
    /\ now' = now - 1
    /\ clock_back' = clock_back + 1
    /\ UNCHANGED <<state_vars, loop_vars, trade_vars, guard_vars, kill_switch_enabled,
                   caller_vars, settle_vars, call_vars>>

is_kill_switch_enabled_AlwaysOff(flag) == FALSE

\* AgentState.is_kill_switch_enabled
is_kill_switch_enabled(flag) == flag

\* AgentState.set_kill_switch, called by POST /admin/kill-switch
set_kill_switch(enabled) ==
    /\ kill_switch_enabled' = enabled
    /\ UNCHANGED <<state_vars, clock_vars, loop_vars, trade_vars, guard_vars, caller_vars,
                   settle_vars, call_vars>>

(***************************************************************************)
(* main.py: run(), the round loop.  Every add_event and log_paper_entry of *)
(* the loop sits next to an assignment the state keeps: round_activated    *)
(* next to round_activated_count, decision next to the executor call,      *)
(* the four de-duplicated events next to their last_logged_* baseline,     *)
(* paper_trade_opened and paper_trade_closed next to paper_log,            *)
(* round_closed next to the review trigger.                                *)
(***************************************************************************)
\* wait_until_activation returns the window of the current clock value
WaitUntilActivation ==
    /\ pc = "waiting"
    /\ InActivationWindow(now)
    /\ current_round(now).close_ts <= MaxTime
    /\ window' = current_round(now)
    /\ pc' = "woken"
    /\ UNCHANGED <<state_vars, clock_vars, last_round_executed, round_open_btc_price,
                   round_open_btc_price_source,
                   last_logged_opportunity, last_logged_odds_filter_blocked,
                   last_logged_risk_blocked, last_logged_net_edge_blocked,
                   round_activated_count, review_queue, ticks, trade_vars, guard_vars,
                   kill_switch_enabled, caller_vars, settle_vars, call_vars>>

AlreadyExecuted_NoGuard(last_executed, round_id) == FALSE

\* the guard "last_round_executed == window.round_id"
AlreadyExecuted(last_executed, round_id) == last_executed = round_id

\* the round was executed already: sleep and wait again
SkipExecutedRound ==
    /\ pc = "woken"
    /\ AlreadyExecuted(last_round_executed, window.round_id)
    /\ pc' = "waiting"
    /\ UNCHANGED <<state_vars, clock_vars, window, last_round_executed, round_open_btc_price,
                   round_open_btc_price_source,
                   last_logged_opportunity, last_logged_odds_filter_blocked,
                   last_logged_risk_blocked, last_logged_net_edge_blocked,
                   round_activated_count, review_queue, ticks, trade_vars, guard_vars,
                   kill_switch_enabled, caller_vars, settle_vars, call_vars>>

round_open_reference_BinanceFirst(binance_open_price, chainlink_open_price) ==
    [price |-> IF binance_open_price # None THEN binance_open_price
               ELSE chainlink_open_price,
     source |-> IF binance_open_price # None THEN "binance_klines"
                ELSE IF chainlink_open_price # None THEN "chainlink_history_rows"
                ELSE NoneStr]

\* the round-open reference run() has after its two lookups (each a price
\* or None): the Chainlink history row when there is one, else the Binance
\* kline, else nothing
round_open_reference(binance_open_price, chainlink_open_price) ==
    [price |-> IF chainlink_open_price # None THEN chainlink_open_price
               ELSE binance_open_price,
     source |-> IF chainlink_open_price # None THEN "chainlink_history_rows"
                ELSE IF binance_open_price # None THEN "binance_klines"
                ELSE NoneStr]

\* the two round-open lookups, set_round and the round_activated event
ActivateRound(binance_open_price, chainlink_open_price) ==
    /\ pc = "woken"
    /\ ~AlreadyExecuted(last_round_executed, window.round_id)
    /\ round_open_btc_price' =
           round_open_reference(binance_open_price, chainlink_open_price).price
    /\ round_open_btc_price_source' =
           round_open_reference(binance_open_price, chainlink_open_price).source
    /\ round_activated_count' =
           [round_activated_count EXCEPT ![window.round_id] = @ + 1]
    /\ pc' = "active"
    /\ UNCHANGED <<state_vars, clock_vars, window, last_round_executed,
                   last_logged_opportunity, last_logged_odds_filter_blocked,
                   last_logged_risk_blocked, last_logged_net_edge_blocked,
                   review_queue, ticks, trade_vars, guard_vars, kill_switch_enabled,
                   caller_vars, settle_vars, call_vars>>

ODDS_FILTER_MIN_CONFIDENCE == 55
ODDS_SUPPORT_BONUS == 5
ODDS_AGAINST_PENALTY == 8

odds_adjusted_confidence_TieSupports(action, raw_confidence, yes_price, no_price) ==
    IF (action = "BUY_YES" /\ yes_price >= no_price)
       \/ (action = "BUY_NO" /\ no_price >= yes_price)
    THEN Min(100, raw_confidence + ODDS_SUPPORT_BONUS)
    ELSE Max(0, raw_confidence - ODDS_AGAINST_PENALTY)

\* run(): the confidence after the odds alignment, both prices present
odds_adjusted_confidence(action, raw_confidence, yes_price, no_price) ==
    LET supports_action == \/ (action = "BUY_YES" /\ yes_price > no_price)
                           \/ (action = "BUY_NO" /\ no_price > yes_price)
    IN  IF supports_action
        THEN Min(100, raw_confidence + ODDS_SUPPORT_BONUS)
        ELSE Max(0, raw_confidence - ODDS_AGAINST_PENALTY)

\* run(): odds_filter_min_confidence under a strategy mode
odds_filter_min_confidence_of(mode, min_confidence_to_trade) ==
    IF mode = "btc_updown" THEN min_confidence_to_trade
    ELSE ODDS_FILTER_MIN_CONFIDENCE

\* the paper_trade_opened entry, with a fresh id
trade_entry(id, now_ts, tick_ts, w, action, confidence, open_price, open_source, market_entry_reference, effective_slippage_bps) ==
    [type |-> "paper_trade_opened",
     id |-> id,
     ts |-> now_ts,
     entry_ts |-> tick_ts,
     round_id |-> w.round_id,
     round_close_ts |-> w.close_ts,
     action |-> action,
     confidence |-> confidence,
     btc_price_to_beat |-> open_price,
     btc_price_to_beat_source |-> open_source,
     signal_price |-> market_entry_reference,
     entry_price |-> apply_entry_execution(action, market_entry_reference,
                                           effective_slippage_bps),
     notional_usd |-> paper_trade_notional_usd]

last_logged_after_EveryEvent(emitted, event, last_logged) == event

\* run(): "if should_log_...(event, last_logged_x): emit; last_logged_x =
\* event": the baseline of an event type after an event of the type
last_logged_after(emitted, event, last_logged) ==
    IF emitted THEN event ELSE last_logged

context_price_OfEitherSide(both, price) == price

\* run(): context["polymarket_yes_price"] and context["polymarket_no_price"]
\* are set only when both prices of the snapshot are numbers
context_price(both, price) == IF both THEN price ELSE None

\* the decision pipeline of one tick before the round's close, from the
\* odds snapshot to the opened trade.  t carries the values the handler has
\* so far; the result carries them at the handler's "continue" or end.
\* A last_logged_* baseline keeps the keys the event filters compare.
Pipeline_of(min_net_edge_bps, t, price, tick_ts, decision, odds_snapshot) ==
    LET now_ts == now
        round_id == window.round_id
        yes_price == odds_snapshot[1]
        no_price == odds_snapshot[2]
        both == yes_price # None /\ no_price # None
        action == decision.action
        raw_confidence == decision.confidence
        confidence == IF ~both THEN raw_confidence
                      ELSE odds_adjusted_confidence(action, raw_confidence,
                                                    yes_price, no_price)
        ctx_yes == context_price(both, yes_price)
        ctx_no == context_price(both, no_price)
        odds_filter_min_confidence ==
            odds_filter_min_confidence_of(strategy_mode,
                                          btc_updown_min_confidence_to_trade)
        odds_filter_event ==
            [action |-> action, round_id |-> round_id,
             yes_price |-> yes_price, no_price |-> no_price, price |-> price]
        edge_strength_value == IF both THEN Abs(yes_price - no_price) ELSE None
        opportunity_entry ==
            [round_id |-> round_id, action |-> action, price |-> price,
             polymarket_yes_price |-> ctx_yes, polymarket_no_price |-> ctx_no]
        t1 == [t EXCEPT !.last_logged_opportunity =
                  last_logged_after(
                      should_log_material_event(opportunity_entry, t.last_logged_opportunity,
                                                MaterialIdentityKeys, OpportunityMetricKeys),
                      opportunity_entry, t.last_logged_opportunity)]
        seconds_to_close == Max(0, window.close_ts - now_ts)
        RiskBlocked(tt, reason) ==
            LET risk_blocked_event ==
                    [action |-> action, round_id |-> round_id, reason |-> reason]
            IN  IF should_log_discrete_event(risk_blocked_event, tt.last_logged_risk_blocked,
                                             DiscreteIdentityKeys)
                THEN [tt EXCEPT !.last_logged_risk_blocked = risk_blocked_event]
                ELSE tt
        risk_check == evaluate(t.risk_guard, round_id, now_ts)
        \* set_decision, the decision event, executor.execute, record_execution
        t2 == [t1 EXCEPT !.executor_calls = [@ EXCEPT ![round_id] = @ + 1],
                         !.risk_guard = record_execution(@, round_id, now_ts),
                         !.recorded = [count |-> [@.count EXCEPT ![round_id] = @ + 1],
                                       last |-> now_ts]]
        effective_slippage_bps ==
            compute_effective_entry_slippage_bps(edge_strength_value, confidence,
                                                 seconds_to_close, round_seconds)
        expected_edge_bps ==
            estimate_expected_edge_bps(edge_strength_value, confidence,
                                       paper_edge_strength_to_bps)
        estimated_total_cost_bps ==
            estimate_total_cost_bps(paper_trade_notional_usd, effective_slippage_bps)
        estimated_net_edge_bps == expected_edge_bps - estimated_total_cost_bps
        net_edge_blocked_event ==
            [action |-> action, round_id |-> round_id,
             expected_edge_bps |-> expected_edge_bps,
             estimated_total_cost_bps |-> estimated_total_cost_bps,
             estimated_net_edge_bps |-> estimated_net_edge_bps,
             price |-> price]
        market_entry_reference == IF action = "BUY_YES" THEN ctx_yes ELSE ctx_no
        opened ==
            trade_entry(t.next_id, now_ts, tick_ts, window, action, confidence,
                        t.round_open_btc_price, t.round_open_btc_price_source,
                        market_entry_reference, effective_slippage_bps)
    IN  IF both /\ confidence < odds_filter_min_confidence
        THEN [t EXCEPT !.last_logged_odds_filter_blocked =
                 last_logged_after(
                     should_log_material_event(odds_filter_event,
                                               t.last_logged_odds_filter_blocked,
                                               MaterialIdentityKeys, OddsFilterMetricKeys),
                     odds_filter_event, t.last_logged_odds_filter_blocked)]
        ELSE IF is_kill_switch_enabled(kill_switch_enabled)
        THEN RiskBlocked(t1, "kill_switch_enabled")
        ELSE IF ~risk_check.allowed
        THEN RiskBlocked(t1, risk_check.reason)
        ELSE IF net_edge_below_threshold(min_net_edge_bps, estimated_net_edge_bps)
        THEN [t2 EXCEPT !.last_logged_net_edge_blocked =
                 last_logged_after(
                     should_log_material_event(net_edge_blocked_event,
                                               t2.last_logged_net_edge_blocked,
                                               MaterialIdentityKeys, NetEdgeMetricKeys),
                     net_edge_blocked_event, t2.last_logged_net_edge_blocked)]
        ELSE IF market_entry_reference = None
        THEN RiskBlocked(t2, "missing_polymarket_entry_price")
        ELSE [t2 EXCEPT !.open_paper_trades = Append(@, opened),
                        !.paper_log = Append(@, opened),
                        !.next_id = @ + 1]

\* the pipeline under the configured minimum net edge
Pipeline(t, price, tick_ts, decision, odds_snapshot) ==
    Pipeline_of(paper_min_net_edge_bps, t, price, tick_ts, decision, odds_snapshot)

\* the close branch of one tick: settle_round, round_closed, the review
\* trigger and last_round_executed; an exception leaving settle_round ends
\* run()
CloseRound(t, price, tick_ts) ==
    LET settled == settle_round(window.round_id, price, tick_ts, t.round_open_btc_price,
                                t.open_paper_trades, t.daily_trade_totals)
        t1 == [t EXCEPT !.open_paper_trades = settled.open,
                        !.daily_trade_totals = settled.daily,
                        !.paper_log = @ \o settled.entries]
    IN  IF settled.raised
        THEN [t1 EXCEPT !.pc = "crashed"]
        ELSE [t1 EXCEPT !.review_queue = Append(@, window.round_id),
                        !.last_round_executed = window.round_id,
                        !.pc = "waiting"]

Decisions == [action : Actions, confidence : Confidences]
\* decider.on_tick returned None
NoDecision == [action |-> NoneStr, confidence |-> None]

live_tick_fallback_Never(reference, price) == reference

\* "if round_open_btc_price is None: round_open_btc_price = tick.price", at
\* the top of every tick
live_tick_fallback(reference, price) ==
    IF reference = None THEN price ELSE reference

\* the body of "async for tick in decision_ticker.stream_ticks()" for one
\* tick; decision is what decider.on_tick returns for it and snapshot what
\* get_polymarket_odds_snapshot returns
TickResult_of(min_net_edge_bps, price, tick_ts, decision, odds_snapshot) ==
    LET now_ts == now
        fallback == round_open_btc_price = None
        t0 == [pc |-> pc,
               last_round_executed |-> last_round_executed,
               round_open_btc_price |-> live_tick_fallback(round_open_btc_price, price),
               round_open_btc_price_source |->
                   IF fallback /\ round_open_btc_price_source = NoneStr
                   THEN "live_tick_fallback" ELSE round_open_btc_price_source,
               last_logged_opportunity |-> last_logged_opportunity,
               last_logged_odds_filter_blocked |-> last_logged_odds_filter_blocked,
               last_logged_risk_blocked |-> last_logged_risk_blocked,
               last_logged_net_edge_blocked |-> last_logged_net_edge_blocked,
               review_queue |-> review_queue,
               risk_guard |-> risk_guard,
               executor_calls |-> executor_calls,
               recorded |-> recorded,
               open_paper_trades |-> open_paper_trades,
               daily_trade_totals |-> daily_trade_totals,
               next_id |-> next_id,
               paper_log |-> paper_log]
    IN  IF now_ts >= window.close_ts THEN CloseRound(t0, price, tick_ts)
        ELSE IF decision = NoDecision THEN t0
        ELSE Pipeline_of(min_net_edge_bps, t0, price, tick_ts, decision, odds_snapshot)

TickResult(price, tick_ts, decision, odds_snapshot) ==
    TickResult_of(paper_min_net_edge_bps, price, tick_ts, decision, odds_snapshot)

\* the timestamp a tick carries is the feed's (ticker.py parses it from the
\* message), while now_ts is the local clock at receipt: the feed's clock
\* is ahead of the local one by `ahead` seconds at most
TickTimesAhead(ahead) == now .. now + ahead

\* the feed's clock agrees with the local one
TickTimes == TickTimesAhead(0)

OnTick_of(min_net_edge_bps, price, tick_ts, decision, odds_snapshot) ==
    /\ pc = "active"
    /\ ticks < MaxTicks
    /\ ticks' = ticks + 1
    /\ \E t \in {TickResult_of(min_net_edge_bps, price, tick_ts, decision, odds_snapshot)} :
           /\ pc' = t.pc
           /\ last_round_executed' = t.last_round_executed
           /\ round_open_btc_price' = t.round_open_btc_price
           /\ round_open_btc_price_source' = t.round_open_btc_price_source
           /\ last_logged_opportunity' = t.last_logged_opportunity
           /\ last_logged_odds_filter_blocked' = t.last_logged_odds_filter_blocked
           /\ last_logged_risk_blocked' = t.last_logged_risk_blocked
           /\ last_logged_net_edge_blocked' = t.last_logged_net_edge_blocked
           /\ review_queue' = t.review_queue
           /\ risk_guard' = t.risk_guard
           /\ executor_calls' = t.executor_calls
           /\ recorded' = t.recorded
           /\ open_paper_trades' = t.open_paper_trades
           /\ daily_trade_totals' = t.daily_trade_totals
           /\ next_id' = t.next_id
           /\ paper_log' = t.paper_log
    /\ UNCHANGED <<state_vars, clock_vars, window, round_activated_count, kill_switch_enabled,
                   caller_vars, settle_vars, call_vars>>

\* the tick handler under the configured minimum net edge
OnTick(price, tick_ts, decision, odds_snapshot) ==
    OnTick_of(paper_min_net_edge_bps, price, tick_ts, decision, odds_snapshot)

OrchestratorNext ==
    \/ ClockAdvance
    \/ ClockBack
    \/ \E enabled \in BOOLEAN : set_kill_switch(enabled)
    \/ WaitUntilActivation
    \/ SkipExecutedRound
    \/ \E b \in BinanceOpenPrices, c \in ChainlinkOpenPrices : ActivateRound(b, c)
    \/ \E price \in BtcPrices, tick_ts \in TickTimes, decision \in Decisions \cup {NoDecision},
          odds_snapshot \in OddsSnapshots :
           OnTick(price, tick_ts, decision, odds_snapshot)

Spec == Init /\ [][OrchestratorNext]_vars

\* the round loop fed by a feed whose clock may be ahead of the local one
FeedAheadNext ==
    \/ ClockAdvance
    \/ ClockBack
    \/ \E enabled \in BOOLEAN : set_kill_switch(enabled)
    \/ WaitUntilActivation
    \/ SkipExecutedRound
    \/ \E b \in BinanceOpenPrices, c \in ChainlinkOpenPrices : ActivateRound(b, c)
    \/ \E price \in BtcPrices, tick_ts \in TickTimesAhead(MaxFeedAhead),
          decision \in Decisions \cup {NoDecision}, odds_snapshot \in OddsSnapshots :
           OnTick(price, tick_ts, decision, odds_snapshot)

SpecFeedAhead == Init /\ [][FeedAheadNext]_vars

\* the round loop under the default of PAPER_MIN_NET_EDGE_BPS, with which the
\* net-edge gate blocks nothing
DefaultMinimumNext ==
    \/ ClockAdvance
    \/ ClockBack
    \/ \E enabled \in BOOLEAN : set_kill_switch(enabled)
    \/ WaitUntilActivation
    \/ SkipExecutedRound
    \/ \E b \in BinanceOpenPrices, c \in ChainlinkOpenPrices : ActivateRound(b, c)
    \/ \E price \in BtcPrices, tick_ts \in TickTimes, decision \in Decisions \cup {NoDecision},
          odds_snapshot \in OddsSnapshots :
           OnTick_of(default_min_net_edge_bps, price, tick_ts, decision, odds_snapshot)

SpecDefaultMinimum == Init /\ [][DefaultMinimumNext]_vars

\* BTC prices two percent apart: each below the threshold of the event
\* filter from the one before, the third above it from the first
DriftPrices == {100, 102, 104}

\* the round loop fed by a ticker whose price drifts, under a clock that
\* is not set back and a kill switch left off, in rounds whose open price
\* no lookup returns, so that the first tick of a round supplies it; with
\* the clock not set back the loop is never woken in a round it has
\* executed, and the skip of such a round has no step here
DriftNext ==
    \/ ClockAdvance
    \/ WaitUntilActivation
    \/ ActivateRound(None, None)
    \/ \E price \in DriftPrices, tick_ts \in TickTimes, decision \in Decisions \cup {NoDecision},
          odds_snapshot \in OddsSnapshots :
           OnTick(price, tick_ts, decision, odds_snapshot)

SpecDrift == Init /\ [][DriftNext]_vars

(***************************************************************************)
(* risk/guard.py under concurrent callers.  Each caller runs evaluate and, *)
(* if allowed, record_execution with the same arguments, as main.py does.  *)
(* Each method holds the guard's lock for its own body only, so the two    *)
(* are two steps and other callers' steps may fall between them.           *)
(***************************************************************************)
CallerEvaluate(c, round_id) ==
    /\ caller_pc[c] = "idle"
    /\ LET risk_check == evaluate(risk_guard, round_id, now)
       IN  /\ caller_call' = [caller_call EXCEPT ![c] =
                  [round_id |-> round_id, now_ts |-> now,
                   allowed |-> risk_check.allowed, reason |-> risk_check.reason]]
           /\ caller_pc' = [caller_pc EXCEPT ![c] =
                  IF risk_check.allowed THEN "allowed" ELSE "idle"]
    /\ UNCHANGED <<state_vars, clock_vars, loop_vars, trade_vars, guard_vars,
                   kill_switch_enabled, settle_vars, call_vars>>

CallerRecord(c) ==
    /\ caller_pc[c] = "allowed"
    /\ LET round_id == caller_call[c].round_id
           now_ts == caller_call[c].now_ts
       IN  /\ risk_guard' = record_execution(risk_guard, round_id, now_ts)
           /\ recorded' = [count |-> [recorded.count EXCEPT ![round_id] = @ + 1],
                           last |-> now_ts]
    /\ caller_pc' = [caller_pc EXCEPT ![c] = "idle"]
    /\ caller_call' = [caller_call EXCEPT ![c] = NoCall]
    /\ UNCHANGED <<state_vars, clock_vars, loop_vars, trade_vars, executor_calls,
                   kill_switch_enabled, settle_vars, call_vars>>

GuardNext ==
    \/ ClockAdvance
    \/ \E c \in Callers, round_id \in RoundIds : CallerEvaluate(c, round_id)
    \/ \E c \in Callers : CallerRecord(c)

SpecGuard == Init /\ [][GuardNext]_vars

(***************************************************************************)
(* main.py: settle_round called directly, on trades opened as the loop     *)
(* opens them.  A call that raises leaves every variable as it was.        *)
(***************************************************************************)
SettleClosePrices == {97, 100, 103}
SettleCloseTimes == {round_seconds, SECONDS_PER_DAY + round_seconds}
SettleEntryReferences == {90, 10}

SettledRounds == {settle_calls[i] : i \in DOMAIN settle_calls}

\* a trade of a round that settle_round was not yet called for
OpenPaperTrade(round_id, action, market_entry_reference) ==
    /\ Len(paper_log) < MaxSettleTrades
    /\ round_id \notin SettledRounds
    /\ LET w == current_round(round_id * round_seconds)
           opened == trade_entry(next_id, w.activation_ts, w.activation_ts, w, action,
                                 62 + ODDS_SUPPORT_BONUS, 100, "binance_klines",
                                 market_entry_reference, entry_slippage_bps)
       IN  /\ open_paper_trades' = Append(open_paper_trades, opened)
           /\ paper_log' = Append(paper_log, opened)
           /\ next_id' = next_id + 1
    /\ UNCHANGED <<state_vars, clock_vars, loop_vars, guard_vars, kill_switch_enabled,
                   daily_trade_totals, caller_vars, settle_vars, call_vars>>

SettleRound(round_id, close_btc_price, close_ts, round_open) ==
    /\ Len(settle_calls) < MaxSettleCalls
    /\ LET settled == settle_round(round_id, close_btc_price, close_ts, round_open,
                                   open_paper_trades, daily_trade_totals)
       IN  /\ open_paper_trades' = settled.open
           /\ daily_trade_totals' = settled.daily
           /\ paper_log' = paper_log \o settled.entries
           /\ last_settle' = [round_id |-> round_id,
                              round_open |-> round_open,
                              raised |-> settled.raised,
                              repeated |-> round_id \in SettledRounds,
                              closed |-> Len(settled.entries)]
    /\ settle_calls' = Append(settle_calls, round_id)
    /\ UNCHANGED <<state_vars, clock_vars, loop_vars, guard_vars, kill_switch_enabled, next_id,
                   caller_vars, call_vars>>

SettleNext ==
    \/ \E round_id \in RoundIds, action \in Actions, ref \in SettleEntryReferences :
           OpenPaperTrade(round_id, action, ref)
    \/ \E round_id \in RoundIds, close_btc_price \in SettleClosePrices,
          close_ts \in SettleCloseTimes, round_open \in RoundOpenLookups :
           SettleRound(round_id, close_btc_price, close_ts, round_open)

SpecSettle == Init /\ [][SettleNext]_vars

(***************************************************************************)
(* scheduler.py on its own.  SpecScheduler applies current_round to any    *)
(* clock value under any pair of configured integers (config.py reads      *)
(* both with int() and checks neither).  SpecWait runs                     *)
(* wait_until_activation, whose loop reads the clock twice per iteration,  *)
(* against a clock that advances and steps back, under the configurations  *)
(* with 0 < lead <= round length.                                          *)
(***************************************************************************)
SchedulerRoundSeconds == {-2} \cup (0 .. MaxSchedulerSeconds)
SchedulerLeads == -1 .. MaxSchedulerSeconds + 1
SchedulerConfigs ==
    {RoundScheduler(s, l) : s \in SchedulerRoundSeconds, l \in SchedulerLeads}
WaitConfigs ==
    {c \in SchedulerConfigs :
        c.round_seconds > 0 /\ c.activation_lead_seconds > 0
                            /\ c.activation_lead_seconds <= c.round_seconds}

InitScheduler ==
    /\ InitRun
    /\ scheduler \in SchedulerConfigs
    /\ round_call = NoCall
    /\ wait_call = WaitIdle
    /\ material_call = NoCall
    /\ router_call = NoCall
    /\ paper_call = NoCall

\* scheduler.current_round(now_ts)
CallCurrentRound(now_ts) ==
    /\ round_call' = [now_ts |-> now_ts, window |-> current_round_of(scheduler, now_ts)]
    /\ UNCHANGED <<state_vars, clock_vars, loop_vars, trade_vars, guard_vars, kill_switch_enabled,
                   caller_vars, settle_vars, scheduler, wait_call, material_call,
                   router_call, paper_call>>

SchedulerNext == \E now_ts \in 0 .. MaxTime : CallCurrentRound(now_ts)

SpecScheduler == InitScheduler /\ [][SchedulerNext]_vars

InitWait ==
    /\ InitRun
    /\ scheduler \in WaitConfigs
    /\ round_call = NoCall
    /\ wait_call = WaitIdle
    /\ material_call = NoCall
    /\ router_call = NoCall
    /\ paper_call = NoCall

ActivationCheck_NoLowerBound(w, now_ts) == now_ts < w.close_ts

\* the return condition "window.activation_ts <= now_ts < window.close_ts"
ActivationCheck(w, now_ts) == w.activation_ts <= now_ts /\ now_ts < w.close_ts

\* "window = self.current_round()": the first clock read of an iteration,
\* at the start of a call or after the sleep of the iteration before
WaitCurrentRound ==
    /\ wait_call.pc \in {"idle", "returned"}
    /\ wait_call' = [pc |-> "computed",
                     window |-> current_round_of(scheduler, now),
                     now_ts |-> None]
    /\ UNCHANGED <<state_vars, clock_vars, loop_vars, trade_vars, guard_vars, kill_switch_enabled,
                   caller_vars, settle_vars, scheduler, round_call, material_call,
                   router_call, paper_call>>

\* "now_ts = time.time()", the second clock read, and the check: return
\* the window or sleep and loop
WaitCheck ==
    /\ wait_call.pc = "computed"
    /\ wait_call' = [wait_call EXCEPT
                        !.now_ts = now,
                        !.pc = IF ActivationCheck(wait_call.window, now)
                               THEN "returned" ELSE "idle"]
    /\ UNCHANGED <<state_vars, clock_vars, loop_vars, trade_vars, guard_vars, kill_switch_enabled,
                   caller_vars, settle_vars, scheduler, round_call, material_call,
                   router_call, paper_call>>

WaitNext ==
    \/ ClockAdvance
    \/ ClockBack
    \/ WaitCurrentRound
    \/ WaitCheck

SpecWait == InitWait /\ [][WaitNext]_vars

(***************************************************************************)
(* scheduler.py: the sleeps of wait_until_activation.  SpecSleep runs one   *)
(* call from every starting time of round 0 with the clock in tenths of a  *)
(* second, so that the floor of 0.2 s and the cap of 2.0 s of a sleep are  *)
(* 2 and 20 units; the configurations are those of SpecWait, in tenths.    *)
(* The clock moves by at most one unit between the two reads of an         *)
(* iteration, and a sleep lasts the time asked for or up to MaxOversleep   *)
(* units longer; it is not set back.  The coroutine is scheduled as long   *)
(* as it can run (asyncio runs a ready coroutine and wakes a sleeper).     *)
(***************************************************************************)
TENTHS == 10
MIN_SLEEP == 2
MAX_SLEEP == 20
MaxOversleep == 1
MaxSleepClock == 3 * TENTHS * MaxSchedulerSeconds

SleepConfigs ==
    {RoundScheduler(TENTHS * c.round_seconds, TENTHS * c.activation_lead_seconds) :
        c \in WaitConfigs}

\* "sleep_for = max(0.2, window.activation_ts - now_ts)" before activation,
\* "max(0.2, next_round_ts - now_ts)" after a missed close
sleep_for_of(self, w, now_ts) ==
    IF now_ts < w.activation_ts
    THEN Max(MIN_SLEEP, w.activation_ts - now_ts)
    ELSE Max(MIN_SLEEP, (w.start_ts + self.round_seconds) - now_ts)

sleep_argument_NoCap(sleep_for) == sleep_for

\* "await asyncio.sleep(min(sleep_for, 2.0))"
sleep_argument(sleep_for) == Min(sleep_for, MAX_SLEEP)

SleepIdle ==
    [pc |-> "idle", window |-> NoWindow, now_ts |-> None, sleep_for |-> None,
     slept |-> None]

InitSleep ==
    /\ scheduler \in SleepConfigs
    /\ \E start \in 0 .. TENTHS * MaxSchedulerSeconds - 1 :
           /\ start < scheduler.round_seconds
           /\ InitRunAt(start)
    /\ round_call = NoCall
    /\ wait_call = SleepIdle
    /\ material_call = NoCall
    /\ router_call = NoCall
    /\ paper_call = NoCall

\* "window = self.current_round()": the first clock read of an iteration
SleepCurrentRound ==
    /\ wait_call.pc = "idle"
    /\ wait_call' = [wait_call EXCEPT !.pc = "computed",
                                      !.window = current_round_of(scheduler, now)]
    /\ UNCHANGED <<state_vars, clock_vars, loop_vars, trade_vars, guard_vars, kill_switch_enabled,
                   caller_vars, settle_vars, scheduler, round_call, material_call,
                   router_call, paper_call>>

\* "now_ts = time.time()", the second read, the clock having moved by `drift`
\* since the first, and the check: return the window, or compute the sleep
\* and start it
SleepCheck(drift) ==
    /\ wait_call.pc = "computed"
    /\ now + drift <= MaxSleepClock
    /\ now' = now + drift
    /\ wait_call' =
           IF ActivationCheck(wait_call.window, now')
           THEN [wait_call EXCEPT !.now_ts = now', !.pc = "returned"]
           ELSE [wait_call EXCEPT
                    !.now_ts = now',
                    !.pc = "sleeping",
                    !.sleep_for = sleep_for_of(scheduler, wait_call.window, now'),
                    !.slept = sleep_argument(sleep_for_of(scheduler, wait_call.window, now'))]
    /\ UNCHANGED <<state_vars, clock_back, loop_vars, trade_vars, guard_vars, kill_switch_enabled,
                   caller_vars, settle_vars, scheduler, round_call, material_call,
                   router_call, paper_call>>

\* the sleep ends, `late` units after the time asked for, and the loop goes
\* round
SleepWake(late) ==
    /\ wait_call.pc = "sleeping"
    /\ now + wait_call.slept + late <= MaxSleepClock
    /\ now' = now + wait_call.slept + late
    /\ wait_call' = [wait_call EXCEPT !.pc = "idle"]
    /\ UNCHANGED <<state_vars, clock_back, loop_vars, trade_vars, guard_vars, kill_switch_enabled,
                   caller_vars, settle_vars, scheduler, round_call, material_call,
                   router_call, paper_call>>

SleepNext ==
    \/ SleepCurrentRound
    \/ \E drift \in 0 .. 1 : SleepCheck(drift)
    \/ \E late \in 0 .. MaxOversleep : SleepWake(late)

SpecSleep == InitSleep /\ [][SleepNext]_vars /\ WF_vars(SleepNext)

(***************************************************************************)
(* main.py: should_log_material_event on its own, with its default         *)
(* identity and metric keys, applied to every pair of a current event and  *)
(* a previous event or None.  A metric value is None (absent, or not a     *)
(* number for _as_float) or a number.                                      *)
(***************************************************************************)
MetricValues == {None, 0, 100, 102, 103, -100}
MaterialEvents ==
    [round_id : {0, 1}, action : Actions, price : MetricValues,
     polymarket_yes_price : MetricValues, polymarket_no_price : {None, 50}]

InitMaterial ==
    /\ InitRun
    /\ scheduler = RoundScheduler(round_seconds, activation_lead_seconds)
    /\ round_call = NoCall
    /\ wait_call = WaitIdle
    /\ material_call \in [current : MaterialEvents,
                          previous : MaterialEvents \cup {NoEvent},
                          done : {FALSE}, result : {FALSE}]
    /\ router_call = NoCall
    /\ paper_call = NoCall

\* should_log_material_event(current, previous)
CallShouldLogMaterialEvent ==
    /\ ~material_call.done
    /\ material_call' =
           [material_call EXCEPT
               !.done = TRUE,
               !.result = should_log_material_event(material_call.current,
                                                    material_call.previous,
                                                    MaterialIdentityKeys,
                                                    OpportunityMetricKeys)]
    /\ UNCHANGED <<state_vars, clock_vars, loop_vars, trade_vars, guard_vars, kill_switch_enabled,
                   caller_vars, settle_vars, scheduler, round_call, wait_call,
                   router_call, paper_call>>

MaterialNext == CallShouldLogMaterialEvent

SpecMaterial == InitMaterial /\ [][MaterialNext]_vars

(***************************************************************************)
(* decision.py: two DecisionRouters built alike but for the shadow flag,   *)
(* fed the same ticks and market contexts.  A router starts with no        *)
(* prices, or one short of the 8 or of the 30 that return_short and zscore *)
(* need.                                                                   *)
(***************************************************************************)
StrategyModes == {"classic", "btc_updown"}
RouterPricesLen == {0, 7, 29}
TickReturns == {None, 0, 20, -20}
TickZscores == {None, 20000, -20000}
ExtraStates ==
    [seconds_to_close : {0, activation_lead_seconds},
     round_seconds : {round_seconds},
     polymarket_yes_price : {None, 4000, 9000},
     polymarket_no_price : {None, 6000},
     orderbook_imbalance : {None, 8000, -8000},
     trade_momentum : {None, 8000},
     feed_divergence_bps : {None, 2}]

\* DecisionRouter.__init__ followed by prices_len ticks without a candidate
DecisionRouter(mode, shadow_mode, live_enabled, prices_len) ==
    [strategy_mode |-> mode,
     btc_updown_shadow_mode |-> shadow_mode,
     btc_updown_live_enabled |-> live_enabled,
     prices_len |-> prices_len,
     recent_actions |-> << >>]

InitRouter ==
    /\ InitRun
    /\ scheduler = RoundScheduler(round_seconds, activation_lead_seconds)
    /\ round_call = NoCall
    /\ wait_call = WaitIdle
    /\ material_call = NoCall
    /\ \E mode \in StrategyModes, live_enabled \in BOOLEAN, prices_len \in RouterPricesLen :
           router_call = [on |-> DecisionRouter(mode, TRUE, live_enabled, prices_len),
                          off |-> DecisionRouter(mode, FALSE, live_enabled, prices_len),
                          decision_on |-> NoRouterDecision,
                          decision_off |-> NoRouterDecision,
                          shadow_on |-> NoCandidate,
                          ticks |-> 0]
    /\ paper_call = NoCall

\* decider.on_tick(tick, extra_state) on both routers
CallOnTick(tick, extra_state) ==
    /\ router_call.ticks < MaxRouterTicks
    /\ \E r_on \in {on_tick(router_call.on, tick, extra_state)},
          r_off \in {on_tick(router_call.off, tick, extra_state)} :
           router_call' = [on |-> r_on.router,
                           off |-> r_off.router,
                           decision_on |-> r_on.decision,
                           decision_off |-> r_off.decision,
                           shadow_on |-> r_on.shadow,
                           ticks |-> router_call.ticks + 1]
    /\ UNCHANGED <<state_vars, clock_vars, loop_vars, trade_vars, guard_vars, kill_switch_enabled,
                   caller_vars, settle_vars, scheduler, round_call, wait_call,
                   material_call, paper_call>>

RouterNext ==
    \E tick \in [return_short : TickReturns, zscore : TickZscores],
       extra_state \in ExtraStates :
        CallOnTick(tick, extra_state)

SpecRouter == InitRouter /\ [][RouterNext]_vars

(***************************************************************************)
(* decision.py: one DecisionRouter of any mode and flags, with the tick    *)
(* and the extra state of its last on_tick call kept beside the result.    *)
(***************************************************************************)
RouterExtraStates ==
    {extra_state \in ExtraStates :
        /\ extra_state.seconds_to_close = activation_lead_seconds
        /\ extra_state.trade_momentum = None
        /\ extra_state.feed_divergence_bps = None}

NoTick == [return_short |-> None, zscore |-> None]

InitDecision ==
    /\ InitRun
    /\ scheduler = RoundScheduler(round_seconds, activation_lead_seconds)
    /\ round_call = NoCall
    /\ wait_call = WaitIdle
    /\ material_call = NoCall
    /\ \E mode \in StrategyModes, shadow_mode \in BOOLEAN, live_enabled \in BOOLEAN,
          prices_len \in RouterPricesLen :
           router_call = [router |-> DecisionRouter(mode, shadow_mode, live_enabled, prices_len),
                          tick |-> NoTick,
                          decision |-> NoRouterDecision,
                          shadow |-> NoCandidate,
                          ticks |-> 0]
    /\ paper_call = NoCall

\* decider.on_tick(tick, extra_state)
DeciderOnTick(tick, extra_state) ==
    /\ router_call.ticks < MaxRouterTicks
    /\ \E r \in {on_tick(router_call.router, tick, extra_state)} :
           router_call' = [router |-> r.router,
                           tick |-> tick,
                           decision |-> r.decision,
                           shadow |-> r.shadow,
                           ticks |-> router_call.ticks + 1]
    /\ UNCHANGED <<state_vars, clock_vars, loop_vars, trade_vars, guard_vars, kill_switch_enabled,
                   caller_vars, settle_vars, scheduler, round_call, wait_call,
                   material_call, paper_call>>

DecisionNext ==
    \E tick \in [return_short : TickReturns, zscore : TickZscores],
       extra_state \in RouterExtraStates :
        DeciderOnTick(tick, extra_state)

SpecDecision == InitDecision /\ [][DecisionNext]_vars

(***************************************************************************)
(* strategies/btc_updown.py: one BTCUpdownStrategy whose action history    *)
(* holds the accepted candidates of the ticks before, called on any state. *)
(***************************************************************************)
\* a history of n accepted actions, n_no of them BUY_NO, oldest first
RunOfActions(n, n_no, no_first) ==
    [i \in 1 .. n |->
        IF (no_first /\ i <= n_no) \/ (~no_first /\ i > n - n_no)
        THEN "BUY_NO" ELSE "BUY_YES"]

RecentActionRuns ==
    {RunOfActions(run[1], run[2], no_first) :
        run \in {<<0, 0>>, <<4, 3>>, <<4, 4>>, <<39, 30>>, <<40, 30>>, <<40, 31>>, <<40, 40>>},
        no_first \in BOOLEAN}

StrategyStates ==
    [return_short : {None, 20, -20},
     zscore : {None},
     seconds_to_close : {0},
     round_seconds : {round_seconds},
     polymarket_yes_price : {None, 4000, 9000},
     polymarket_no_price : {None, 6000},
     orderbook_imbalance : {None, 8000, -8000},
     trade_momentum : {None, -8000},
     feed_divergence_bps : {None}]

InitStrategy ==
    /\ InitRun
    /\ scheduler = RoundScheduler(round_seconds, activation_lead_seconds)
    /\ round_call = NoCall
    /\ wait_call = WaitIdle
    /\ material_call = NoCall
    /\ \E recent_actions \in RecentActionRuns :
           router_call = [_recent_actions |-> recent_actions,
                          before |-> recent_actions,
                          state |-> NoCall,
                          shadow |-> NoCandidate,
                          ticks |-> 0]
    /\ paper_call = NoCall

\* BTCUpdownStrategy.evaluate_shadow(state), with its append
EvaluateShadow(state) ==
    /\ router_call.ticks < MaxRouterTicks
    /\ \E shadow \in {evaluate_shadow(state, router_call._recent_actions)} :
           router_call' = [_recent_actions |->
                               IF shadow.candidate
                               THEN AppendRecent(router_call._recent_actions, shadow.action)
                               ELSE router_call._recent_actions,
                           before |-> router_call._recent_actions,
                           state |-> state,
                           shadow |-> shadow,
                           ticks |-> router_call.ticks + 1]
    /\ UNCHANGED <<state_vars, clock_vars, loop_vars, trade_vars, guard_vars, kill_switch_enabled,
                   caller_vars, settle_vars, scheduler, round_call, wait_call,
                   material_call, paper_call>>

StrategyNext == \E state \in StrategyStates : EvaluateShadow(state)

SpecStrategy == InitStrategy /\ [][StrategyNext]_vars

(***************************************************************************)
(* paper_trading.py: evaluate_paper_trade on its own, under the configured *)
(* simulation, for every action, entry price, market outcome and notional  *)
(* of the sets below.                                                      *)
(***************************************************************************)
PaperActions == Actions \cup {"HOLD"}
PaperEntryPrices == {-1000, 0, 40000, 80000, 90450, PRICE_ONE, 120000}
PaperMarketOutcomes == {"yes", "no", "push", "unknown", " YES ", "No"}
PaperNotionals == {0, 50, 100, paper_trade_notional_usd, 10000}

InitPaper ==
    /\ InitRun
    /\ scheduler = RoundScheduler(round_seconds, activation_lead_seconds)
    /\ round_call = NoCall
    /\ wait_call = WaitIdle
    /\ material_call = NoCall
    /\ router_call = NoCall
    /\ paper_call \in [action : PaperActions,
                       entry_price : PaperEntryPrices,
                       market_outcome : PaperMarketOutcomes,
                       notional_usd : PaperNotionals,
                       done : {FALSE},
                       result : {NoCall}]

\* evaluate_paper_trade(action, entry_price, market_outcome,
\* notional_usd=..., simulation=...)
CallEvaluatePaperTrade ==
    /\ ~paper_call.done
    /\ paper_call' =
           [paper_call EXCEPT
               !.done = TRUE,
               !.result = evaluate_paper_trade(paper_call.action,
                                               paper_call.entry_price,
                                               paper_call.market_outcome,
                                               paper_call.notional_usd)]
    /\ UNCHANGED <<state_vars, clock_vars, loop_vars, trade_vars, guard_vars, kill_switch_enabled,
                   caller_vars, settle_vars, scheduler, round_call, wait_call,
                   material_call, router_call>>

PaperNext == CallEvaluatePaperTrade

SpecPaper == InitPaper /\ [][PaperNext]_vars

\* every variable but paper_call is as run() and InitCalls leave it
InitOthers ==
    /\ InitRun
    /\ scheduler = RoundScheduler(round_seconds, activation_lead_seconds)
    /\ round_call = NoCall
    /\ wait_call = WaitIdle
    /\ material_call = NoCall
    /\ router_call = NoCall

OthersUnchanged ==
    UNCHANGED <<state_vars, clock_vars, loop_vars, trade_vars, guard_vars, kill_switch_enabled,
                caller_vars, settle_vars, scheduler, round_call, wait_call,
                material_call, router_call>>

(***************************************************************************)
(* paper_trading.py: apply_entry_execution on its own, for both sides,     *)
(* reference prices in (0, 1] (hundredths) and the slippage argument       *)
(* absent or given in basis points.                                        *)
(***************************************************************************)
InitExecution ==
    /\ InitOthers
    /\ paper_call \in [action : Actions,
                       reference_price : {1, 40, 50, 90, 99, 100},
                       slippage_bps : {None, 0, 50, 100, max_slippage_bps},
                       done : {FALSE},
                       result : {None}]

\* apply_entry_execution(action, reference_price, simulation, slippage_bps=...)
CallApplyEntryExecution ==
    /\ ~paper_call.done
    /\ paper_call' =
           [paper_call EXCEPT
               !.done = TRUE,
               !.result = apply_entry_execution(paper_call.action,
                                                paper_call.reference_price,
                                                paper_call.slippage_bps)]
    /\ OthersUnchanged

SpecExecution == InitExecution /\ [][CallApplyEntryExecution]_vars

(***************************************************************************)
(* paper_trading.py: compute_effective_entry_slippage_bps on its own.      *)
(* The configurations have a base slippage below zero, inside and above    *)
(* the cap, dynamic slippage on and off, factors of either sign, and the   *)
(* configuration and the call of the unit test (cap 120, 0 of 900 seconds  *)
(* left).                                                                  *)
(***************************************************************************)
SlippageConfigs ==
    { PaperTradeSimulationConfig(entry, dynamic, sign * dynamic_slippage_edge_factor_bps,
                                 sign * dynamic_slippage_confidence_factor_bps,
                                 sign * dynamic_slippage_expiry_factor_bps, cap) :
        entry \in {-10, entry_slippage_bps, 300}, dynamic \in BOOLEAN,
        sign \in {-1, 1}, cap \in {0, 120, max_slippage_bps} }

\* the arguments of the call: hundredths for edge_strength and confidence
SlippageArguments ==
    [edge_strength |-> {None, -50, 0, 50, 100},
     confidence |-> {None, 40, 50, 70, 90},
     seconds_to_close |-> {None, -1, 0, 450, 900, 1000},
     round_seconds |-> {None, 0, 900}]

InitSlippage ==
    /\ InitOthers
    /\ paper_call \in [simulation : SlippageConfigs,
                       edge_strength : SlippageArguments.edge_strength,
                       confidence : SlippageArguments.confidence,
                       seconds_to_close : SlippageArguments.seconds_to_close,
                       round_seconds : SlippageArguments.round_seconds,
                       done : {FALSE},
                       result : {None}]

CallComputeEffectiveEntrySlippage ==
    /\ ~paper_call.done
    /\ paper_call' =
           [paper_call EXCEPT
               !.done = TRUE,
               !.result = compute_effective_entry_slippage_bps_of(
                              paper_call.simulation, paper_call.edge_strength,
                              paper_call.confidence, paper_call.seconds_to_close,
                              paper_call.round_seconds)]
    /\ OthersUnchanged

SpecSlippage == InitSlippage /\ [][CallComputeEffectiveEntrySlippage]_vars

(***************************************************************************)
(* state.py: the two histories, filled by calls made one after another.    *)
(* run() logs an opened trade to the paper-trade log and to the event      *)
(* history in one stretch without an await, and logs other events alone;   *)
(* the API takes a snapshot and hands it out before the next call.         *)
(***************************************************************************)
\* the arrival number of the next entry of a history
NextArrival(d) == IF d = << >> THEN 1 ELSE d[Len(d)] + 1

\* run(): log_paper_entry(trade_entry); add_event("info", "paper_trade_opened", ...)
LogPaperTradeOpened ==
    /\ threads["reader"].result = NoCall
    /\ NextArrival(agent_state.paper_trades) <= PAPER_TRADES_MAXLEN + MaxOverflow
    /\ agent_state' =
           add_event(add_paper_trade_entry(agent_state,
                                           NextArrival(agent_state.paper_trades)),
                     NextArrival(agent_state.events))
    /\ UNCHANGED <<run_vars, threads>>

\* run(): an add_event call on its own, such as round_activated
LogEvent ==
    /\ threads["reader"].result = NoCall
    /\ NextArrival(agent_state.events) - NextArrival(agent_state.paper_trades)
           < MaxLoneEvents
    /\ agent_state' = add_event(agent_state, NextArrival(agent_state.events))
    /\ UNCHANGED <<run_vars, threads>>

\* api.py: status() calls agent_state.snapshot()
TakeSnapshot ==
    /\ threads["reader"].result = NoCall
    /\ threads' = [threads EXCEPT !["reader"].result = snapshot(agent_state)]
    /\ UNCHANGED <<run_vars, agent_state>>

\* api.py: status() returns the snapshot
ReturnSnapshot ==
    /\ threads["reader"].result # NoCall
    /\ threads' = [threads EXCEPT !["reader"].result = NoCall]
    /\ UNCHANGED <<run_vars, agent_state>>

HistoryNext == LogPaperTradeOpened \/ LogEvent \/ TakeSnapshot \/ ReturnSnapshot

SpecHistory == Init /\ [][HistoryNext]_vars

(***************************************************************************)
(* state.py under concurrency: the price feed, the odds tracker, the       *)
(* orchestrator and a snapshot reader call agent_state at the same time.   *)
(* A method executes the statements of its locked body one step at a time; *)
(* entering the body is one step with its first statement, leaving it one  *)
(* step with its last.  The n-th write of a task carries the values of n.  *)
(***************************************************************************)
\* thread t executes the next statement of call
ExecuteStatement(t, call) ==
    LET th == threads[t]
        stmts == Statements(call.name)
        k == th.pc + 1
        last == k = Len(stmts)
        written == IF IsWriter(call.name)
                   THEN [agent_state EXCEPT ![stmts[k]] = WriterEffect(agent_state, call)[stmts[k]]]
                   ELSE agent_state
        read == [key \in {stmts[i] : i \in 1 .. k} |->
                    IF key = stmts[k] THEN ReaderResult(agent_state, call)[key]
                    ELSE th.result[key]]
    IN  /\ agent_state' = [written EXCEPT !.lock = IF last THEN NoneStr ELSE t]
        /\ threads' = [threads EXCEPT ![t] =
               [pc |-> IF last THEN 0 ELSE k,
                call |-> call,
                writes |-> IF th.pc = 0 /\ IsWriter(call.name) THEN th.writes + 1 ELSE th.writes,
                result |-> IF IsWriter(call.name) THEN th.result ELSE read]]
        /\ UNCHANGED run_vars

\* thread t begins the call `fresh` when the lock is free, or goes on with it
Method(t, fresh) ==
    LET th == threads[t]
    IN  IF th.pc = 0
        THEN /\ LockFree(agent_state)
             /\ IsWriter(fresh.name) => th.writes < MaxWrites
             /\ ExecuteStatement(t, fresh)
        ELSE /\ th.call.name = fresh.name
             /\ ExecuteStatement(t, th.call)

\* the arguments of the n-th write of each kind
TickOf(n) == [name |-> "set_tick", price |-> 100 + n, tick_ts |-> n]
OddsOf(n) == [name |-> "set_polymarket_odds", yes_price |-> 50 + n, no_price |-> 50 - n, update_ts |-> n]
RoundOf(n) == [name |-> "set_round", round_id |-> n, close_ts |-> (n + 1) * round_seconds]

\* run_live_price_feed: agent_state.set_tick(tick.price, tick.ts)
SetTick == Method("price_feed", TickOf(threads["price_feed"].writes + 1))

\* the odds tracker: state.set_polymarket_odds(...)
SetPolymarketOdds == Method("odds_tracker", OddsOf(threads["odds_tracker"].writes + 1))

\* run(): agent_state.set_round(window.round_id, window.close_ts)
SetRound == Method("orchestrator", RoundOf(threads["orchestrator"].writes + 1))

\* run(): agent_state.add_event(...)
AddEvent ==
    Method("orchestrator", [name |-> "add_event", event |-> threads["orchestrator"].writes + 1])

\* run(): log_paper_entry(entry)
AddPaperTradeEntry ==
    Method("orchestrator",
           [name |-> "add_paper_trade_entry", entry |-> threads["orchestrator"].writes + 1])

\* run(): agent_state.get_polymarket_odds_snapshot()
GetPolymarketOddsSnapshot == Method("orchestrator", [name |-> "get_polymarket_odds_snapshot"])

\* api.py: agent_state.snapshot()
Snapshot == Method("reader", [name |-> "snapshot"])

SharedNext ==
    \/ SetTick
    \/ SetPolymarketOdds
    \/ SetRound
    \/ AddEvent
    \/ AddPaperTradeEntry
    \/ GetPolymarketOddsSnapshot
    \/ Snapshot

SpecShared == Init /\ [][SharedNext]_vars

(***************************************************************************)
(* Properties                                                              *)
(***************************************************************************)
\* paper_trade_opened entries logged for round r
TradesOpened(r) ==
    Cardinality({i \in DOMAIN paper_log :
                    paper_log[i].type = "paper_trade_opened" /\ paper_log[i].round_id = r})

\* paper_trade_closed entries logged for the trade id in the log given
ClosedEntries(log, id) ==
    Cardinality({i \in DOMAIN log :
                    log[i].type = "paper_trade_closed" /\ log[i].id = id})

\* a tick was consumed in this step and the loop is still in the round
TickBeforeClose == ticks' # ticks /\ pc' = "active"

\* a tick was consumed in this step and it closed the round
TickAtClose == ticks' # ticks /\ pc' # "active"

\* C1: in every reachable state of the orchestrator loop, for every round
\* id r, the executions the risk guard has recorded for r and the paper
\* trades opened with round_id r number at most max_trades_per_round.
C1_PerRoundCap ==
    \A r \in RoundIds :
        /\ risk_guard.count[r] <= max_trades_per_round
        /\ recorded.count[r] <= max_trades_per_round
        /\ TradesOpened(r) <= max_trades_per_round

\* the cap is reached by opened trades and a further decision was denied
C1_CapReachedAndDenied ==
    \E r \in RoundIds :
        /\ risk_guard.count[r] = max_trades_per_round
        /\ TradesOpened(r) = max_trades_per_round
        /\ last_logged_risk_blocked # NoEvent
        /\ last_logged_risk_blocked.round_id = r
        /\ last_logged_risk_blocked.reason = "max_trades_per_round"

\* the reason starts with "trade_cooldown:"
CooldownReasons ==
    {CooldownReason(remaining) : remaining \in 0 .. trade_cooldown_seconds + MaxTime}

IsCooldownReason(reason) == reason \in CooldownReasons

\* with an execution recorded at guard.last, evaluate is denied for the
\* cooldown at every round id and every time less than the cooldown later
CooldownDenies(guard) ==
    guard.last # None =>
        \A r \in RoundIds, t \in 0 .. MaxTime :
            t - guard.last < trade_cooldown_seconds =>
                \E risk_check \in {evaluate(guard, r, t)} :
                    ~risk_check.allowed /\ IsCooldownReason(risk_check.reason)

\* an execution recorded in this step is at least the cooldown after the
\* one recorded before it
ExecutionsApart ==
    recorded'.count # recorded.count =>
        \/ recorded.last = None
        \/ recorded'.last - recorded.last >= trade_cooldown_seconds

\* C2: after record_execution at time t, evaluate(r', t') is denied with a
\* reason starting "trade_cooldown:" for every round id r' and every t' with
\* t' - t < trade_cooldown_seconds; and two consecutive executions the
\* orchestrator records are at least trade_cooldown_seconds apart, in one
\* round or across a round boundary.
C2_GlobalCooldown ==
    [][CooldownDenies(risk_guard) /\ CooldownDenies(risk_guard') /\ ExecutionsApart]_vars

\* two executions were recorded, one in each round, and a decision was
\* denied for the cooldown
C2_DeniedThenExecuted ==
    /\ \A r \in 0 .. 1 : recorded.count[r] >= 1
    /\ last_logged_risk_blocked # NoEvent
    /\ IsCooldownReason(last_logged_risk_blocked.reason)

\* what evaluate returns, stated over the executions recorded so far
EvaluateAsSpecified(count, last, call) ==
    LET cooled == last = None \/ call.now_ts - last >= trade_cooldown_seconds
        below == count[call.round_id] < max_trades_per_round
    IN  /\ call.allowed <=> (cooled /\ below)
        /\ call.allowed <=> call.reason = "ok"
        /\ (cooled /\ ~below) => call.reason = "max_trades_per_round"

\* C3: evaluate(round_id, now) is allowed, with reason "ok", exactly when
\* no execution was recorded or now - last >= cooldown, and the round's
\* count is below max_trades_per_round; on a fresh guard every first call is
\* allowed; with the cap reached and the cooldown over the reason is
\* "max_trades_per_round"; and evaluate changes neither the counters nor the
\* last execution time.
C3_EvaluateExact ==
    [][/\ \A c \in Callers :
              (caller_call'[c] # caller_call[c] /\ caller_call'[c] # NoCall) =>
                  /\ EvaluateAsSpecified(recorded.count, recorded.last, caller_call'[c])
                  /\ risk_guard' = risk_guard
                  /\ recorded' = recorded
       /\ \A r \in RoundIds : evaluate(GuardInit, r, now).allowed]_vars

\* a caller was denied for the cap with the cooldown over, another was
\* allowed
C3_DeniedForCap ==
    \E c \in Callers, d \in Callers :
        /\ caller_call[c] # NoCall
        /\ caller_call[c].reason = "max_trades_per_round"
        /\ caller_call[c].now_ts - recorded.last >= trade_cooldown_seconds
        /\ caller_pc[d] = "allowed"

\* C4: with several callers on one RiskGuard, each running evaluate and, if
\* allowed, record_execution, the count of no round exceeds
\* max_trades_per_round and no two recorded executions are closer than the
\* cooldown, under every interleaving.
C4_SharedGuardSafe ==
    [][/\ \A r \in RoundIds : risk_guard'.count[r] <= max_trades_per_round
       /\ ExecutionsApart]_vars

\* C5: record_execution is called only on a tick on which every gate has
\* passed and a paper trade is opened: at every tick boundary the guard's
\* counter of round r equals the number of paper trades opened in round r.
C5_CounterIsTradesOpened ==
    \A r \in RoundIds : risk_guard.count[r] = TradesOpened(r)

\* C6: executor.execute is called only on a tick on which all gates have
\* passed, once per opened trade: the tick of every executor call opens
\* exactly one paper trade.
C6_ExecuteOpensTrade ==
    [][\A r \in RoundIds :
           executor_calls'[r] - executor_calls[r] = TradesOpened(r)' - TradesOpened(r)]_vars

\* what no tick does while the kill switch is enabled
KillSwitchBlocks ==
    /\ executor_calls' = executor_calls
    /\ recorded' = recorded
    /\ risk_guard' = risk_guard
    /\ \A r \in RoundIds : TradesOpened(r)' = TradesOpened(r)
    /\ last_logged_net_edge_blocked' = last_logged_net_edge_blocked
    /\ last_logged_risk_blocked' # last_logged_risk_blocked =>
           last_logged_risk_blocked'.reason = "kill_switch_enabled"

\* the flag read is the value last set
KillSwitchRead == is_kill_switch_enabled(kill_switch_enabled) = kill_switch_enabled

C9_SettledAtClose ==
    [][TickAtClose =>
           \A i \in DOMAIN open_paper_trades :
               LET trade == open_paper_trades[i]
                   still_open == \E j \in DOMAIN open_paper_trades' :
                                     open_paper_trades'[j].id = trade.id
               IN  IF trade.round_id = window.round_id
                   THEN ~still_open /\ ClosedEntries(paper_log', trade.id) = 1
                   ELSE still_open /\ ClosedEntries(paper_log', trade.id) = 0]_vars

\* C10: a second settle_round call for a round id, with any prices, closes
\* nothing.
C10_SecondCallClosesNothing ==
    (last_settle # NoCall /\ last_settle.repeated) => last_settle.closed = 0

\* the day's totals, as update_daily_totals reads them
DailyOf(totals, day_utc) ==
    IF day_utc \in DOMAIN totals THEN totals[day_utc] ELSE DailyDefault

\* the entries this step appended to the paper log
NewEntries == SubSeq(paper_log', Len(paper_log) + 1, Len(paper_log'))

\* settle_round was called in this step without a round-open reference
SettledWithoutReference ==
    /\ settle_calls' # settle_calls
    /\ last_settle'.round_open = None

\* C11: settle_round without a round-open reference closes every open trade
\* of the round with outcome invalid, market_outcome unknown, return_pct 0
\* and pnl_usd 0; the day's closed and invalid counts grow by one per such
\* trade, its wins, losses and realized P&L stay; the close is published as
\* paper_trade_closed_without_round_open.
C11_InvalidWithoutReference ==
    [][SettledWithoutReference =>
          LET r == last_settle'.round_id
              mine == {i \in DOMAIN open_paper_trades : open_paper_trades[i].round_id = r}
              n == Cardinality(mine)
          IN  /\ Len(NewEntries) = n
              /\ \A i \in mine :
                     Cardinality({j \in DOMAIN NewEntries :
                                     NewEntries[j].id = open_paper_trades[i].id}) = 1
              /\ \A j \in DOMAIN NewEntries :
                     /\ NewEntries[j].type = "paper_trade_closed"
                     /\ NewEntries[j].event = "paper_trade_closed_without_round_open"
                     /\ NewEntries[j].round_id = r
                     /\ NewEntries[j].outcome = "invalid"
                     /\ NewEntries[j].market_outcome = "unknown"
                     /\ NewEntries[j].return_pct = 0
                     /\ NewEntries[j].pnl_usd = 0
              /\ n = 0 => daily_trade_totals' = daily_trade_totals
              /\ n > 0 =>
                     LET d == NewEntries[1].day_utc
                         before == DailyOf(daily_trade_totals, d)
                         after == DailyOf(daily_trade_totals', d)
                     IN  /\ after.closed_trades = before.closed_trades + n
                         /\ after.invalid = before.invalid + n
                         /\ after.wins = before.wins
                         /\ after.losses = before.losses
                         /\ after.realized_pnl_usd = before.realized_pnl_usd
                         /\ \A e \in DOMAIN daily_trade_totals :
                                e # d => daily_trade_totals'[e] = daily_trade_totals[e]]_vars

\* two trades of a round were closed by one call without a reference
C11_TwoClosedInvalid ==
    /\ last_settle # NoCall
    /\ last_settle.round_open = None
    /\ last_settle.closed = 2
    /\ \E d \in DOMAIN daily_trade_totals : daily_trade_totals[d].invalid >= 2

\* C12: no failure raised while a tick is processed ends the round loop:
\* run() is never left through an exception.
C12_LoopSurvivesTickFailure == pc # "crashed"

\* C13: the tick that closes a round calls enqueue_market_close_review
\* exactly once, with the round being closed, after its settlement; no
\* other step calls it, and every round in the queue was activated and
\* appears once.
C13_ReviewOncePerClose ==
    [][/\ (TickAtClose => review_queue' = Append(review_queue, window.round_id))
       /\ (~TickAtClose => review_queue' = review_queue)
       /\ \A i \in DOMAIN review_queue' :
              /\ round_activated_count'[review_queue'[i]] = 1
              /\ \A j \in DOMAIN review_queue' :
                     review_queue'[j] = review_queue'[i] => j = i]_vars

\* the configurations the scheduler is meant for
ValidScheduler(self) ==
    /\ self.round_seconds > 0
    /\ self.activation_lead_seconds > 0
    /\ self.activation_lead_seconds <= self.round_seconds

\* the window the call c returned is the one the specification describes
WindowAsSpecified(self, c) ==
    /\ c.window # NoWindow
    /\ LET w == c.window
       IN  /\ w.round_id * self.round_seconds <= c.now_ts
           /\ c.now_ts < (w.round_id + 1) * self.round_seconds
           /\ w.start_ts = w.round_id * self.round_seconds
           /\ w.close_ts = w.start_ts + self.round_seconds
           /\ w.activation_ts = w.close_ts - self.activation_lead_seconds
           /\ w.start_ts <= c.now_ts /\ c.now_ts < w.close_ts
           /\ w.start_ts <= w.activation_ts /\ w.activation_ts < w.close_ts

\* between the calls c and d the round id does not decrease with the clock
\* value, and one time unit later it is one more exactly at a multiple of
\* the round length
RoundIdSteps(self, c, d) ==
    (c # NoCall /\ c.window # NoWindow /\ d.window # NoWindow) =>
        /\ d.now_ts >= c.now_ts => d.window.round_id >= c.window.round_id
        /\ d.now_ts = c.now_ts + 1 =>
               d.window.round_id = c.window.round_id
                   + (IF d.now_ts % self.round_seconds = 0 THEN 1 ELSE 0)

\* C14 (as stated): for every now >= 0 and every configuration,
\* current_round(now) returns round_id = floor(now / round_length), start_ts
\* = round_id * round_length, close_ts = start_ts + round_length and
\* activation_ts = close_ts - lead, with start_ts <= now < close_ts and
\* start_ts <= activation_ts < close_ts, and round_id steps by one exactly
\* at the multiples of round_length.
C14_WindowOfEveryScheduler ==
    [][/\ WindowAsSpecified(scheduler, round_call')
       /\ RoundIdSteps(scheduler, round_call, round_call')]_vars

\* C14 (amended): the same, for every configuration with round_length > 0
\* and 0 < lead <= round_length.
C14_WindowOfValidScheduler ==
    [][ValidScheduler(scheduler) =>
           /\ WindowAsSpecified(scheduler, round_call')
           /\ RoundIdSteps(scheduler, round_call, round_call')]_vars

\* round 4, lead 3: current_round(5) is round 1 from 4 to 8, activated at 5
C14_SecondRoundWindow ==
    /\ scheduler = RoundScheduler(4, 3)
    /\ round_call = [now_ts |-> 5,
                     window |-> [round_id |-> 1, start_ts |-> 4,
                                 close_ts |-> 8, activation_ts |-> 5]]

MetricTriggers(current, previous, key) ==
    /\ current[key] # None
    /\ \/ previous[key] = None
       \/ previous[key] = 0 /\ current[key] # 0
       \/ /\ previous[key] # None /\ previous[key] # 0
          /\ Abs(current[key] - previous[key]) * 100
                 >= MATERIAL_THRESHOLD_PCT * Abs(previous[key])

\* the metric key is absent in both, or present in both and moved by less
\* than the threshold
MetricStill(current, previous, key) ==
    \/ current[key] = None /\ previous[key] = None
    \/ /\ current[key] # None /\ previous[key] # None
       /\ IF previous[key] = 0 THEN current[key] = 0
          ELSE Abs(current[key] - previous[key]) * 100
                   < MATERIAL_THRESHOLD_PCT * Abs(previous[key])

SameIdentity(current, previous) ==
    current.round_id = previous.round_id /\ current.action = previous.action

\* C16: should_log_material_event(current, previous) is true when there is
\* no previous event, when round id or action differ, or when a tracked
\* metric present in current is absent in previous, went from zero to
\* non-zero or moved by at least 3% of the previous value; it is false
\* when the identity is equal and every tracked metric moved by less.
C16_MaterialEventFilter ==
    (material_call # NoCall /\ material_call.done) =>
        LET current == material_call.current
            previous == material_call.previous
        IN  /\ previous = NoEvent => material_call.result
            /\ (previous # NoEvent /\ ~SameIdentity(current, previous))
                   => material_call.result
            /\ (previous # NoEvent /\ \E key \in OpportunityMetricKeys :
                                          MetricTriggers(current, previous, key))
                   => material_call.result
            /\ (previous # NoEvent /\ SameIdentity(current, previous)
                                   /\ \A key \in OpportunityMetricKeys :
                                          MetricStill(current, previous, key))
                   => ~material_call.result

\* same identity, the price moved from 100 to 103 (exactly 3%), the other
\* metrics equal: the event is material
C16_ExactlyThreshold ==
    /\ material_call # NoCall /\ material_call.done
    /\ material_call.previous # NoEvent
    /\ SameIdentity(material_call.current, material_call.previous)
    /\ material_call.previous.price = 100 /\ material_call.current.price = 103
    /\ material_call.current.polymarket_yes_price = material_call.previous.polymarket_yes_price
    /\ material_call.current.polymarket_no_price = material_call.previous.polymarket_no_price
    /\ material_call.result

\* the cause of a denial: the kill switch, the cooldown, the per-round cap
\* or the missing entry price
DenialCause(reason) ==
    IF IsCooldownReason(reason) THEN "trade_cooldown" ELSE reason

\* C17: a risk_blocked event that follows another one is emitted only when
\* the round id, the action or the cause of the denial differs from those
\* of the event before it, so that a run of ticks denied for one cause in
\* one round with one action emits a single event.
C17_OneEventPerDenialRun ==
    [][(last_logged_risk_blocked # NoEvent
            /\ last_logged_risk_blocked' # last_logged_risk_blocked) =>
           \/ last_logged_risk_blocked'.round_id # last_logged_risk_blocked.round_id
           \/ last_logged_risk_blocked'.action # last_logged_risk_blocked.action
           \/ DenialCause(last_logged_risk_blocked'.reason)
                  # DenialCause(last_logged_risk_blocked.reason)]_vars

\* C18: in classic mode the router with the shadow flag enabled returns, on
\* every tick of every sequence of ticks and contexts, the decision the
\* router with the flag disabled returns, and the two keep the same price
\* history.
C18_ShadowDoesNotAffectDecisions ==
    (router_call # NoCall /\ router_call.on.strategy_mode = "classic") =>
        /\ router_call.decision_on = router_call.decision_off
        /\ router_call.on.prices_len = router_call.off.prices_len
        /\ router_call.off.recent_actions = << >>

\* classic mode with the live flag set: the shadow evaluation accepted a
\* BUY_YES candidate on the tick on which both routers returned the BUY_NO
\* of the momentum strategy
C18_CandidateIgnored ==
    /\ router_call # NoCall
    /\ router_call.on.strategy_mode = "classic"
    /\ router_call.on.btc_updown_live_enabled
    /\ router_call.shadow_on.candidate
    /\ router_call.shadow_on.action = "BUY_YES"
    /\ router_call.decision_on = RouterDecision("BUY_NO", "momentum", 6200)
    /\ router_call.decision_off = RouterDecision("BUY_NO", "momentum", 6200)

\* the result has the field and it is 0
ZeroField(result, field) == field \in DOMAIN result /\ result[field] = 0

\* the inputs C19 names: a price outside (0, 1), a notional below the
\* minimum or a market outcome that is none of yes, no, push
InvalidPaperInputs(call) ==
    \/ call.entry_price <= 0
    \/ call.entry_price >= PRICE_ONE
    \/ call.notional_usd < min_notional_usd
    \/ NormalizeOutcome(call.market_outcome) \notin {"yes", "no", "push"}

\* C19: for a price <= 0 or >= 1, a notional below min_notional_usd or a
\* market outcome other than yes, no, push, evaluate_paper_trade returns
\* outcome invalid with return_pct, gross_return_pct, total_cost_pct,
\* gas_fees_usd, gross_pnl_usd and pnl_usd all 0.
C19_InvalidIsAllZero ==
    (paper_call # NoCall /\ paper_call.done /\ InvalidPaperInputs(paper_call)) =>
        /\ paper_call.result.outcome = "invalid"
        /\ \A field \in {"return_pct", "gross_return_pct", "total_cost_pct",
                         "gas_fees_usd", "gross_pnl_usd", "pnl_usd"} :
               ZeroField(paper_call.result, field)

\* the payout per share C20 describes
ExpectedPayout(call) ==
    IF NormalizeOutcome(call.market_outcome) = "push" THEN call.entry_price
    ELSE IF (call.action = "BUY_YES" /\ NormalizeOutcome(call.market_outcome) = "yes")
            \/ (call.action = "BUY_NO" /\ NormalizeOutcome(call.market_outcome) = "no")
         THEN PRICE_ONE ELSE 0

\* C20: for a valid trade the gross return is (payout - entry) / entry with
\* payout 1 on a match, 0 on a miss and the entry price on push; the total
\* cost is the two-sided gas fee over the notional plus the adverse
\* selection reported as applied; the net return is gross - cost; the
\* outcome is win, loss or flat by the sign of the net return; pnl_usd is
\* net return x notional and gross_pnl_usd is gross return x notional.
C20_ValidTradeReturns ==
    (paper_call # NoCall /\ paper_call.done /\ ~InvalidPaperInputs(paper_call)
                         /\ paper_call.action \in Actions) =>
        LET call == paper_call
            result == paper_call.result
            payout == ExpectedPayout(call)
            gross == ((payout - call.entry_price) * 10000) \div call.entry_price
            cost == (2 * gas_fee_usd_per_side * 10000) \div call.notional_usd
                        + result.adverse_selection_bps_applied
            net_sign == (payout - call.entry_price) * call.notional_usd
                            - 2 * gas_fee_usd_per_side * call.entry_price
        IN  /\ result.gross_return_pct = gross
            /\ result.total_cost_pct = cost
            /\ result.return_pct = gross - cost
            /\ result.outcome = (IF net_sign > 0 THEN "win"
                                 ELSE IF net_sign < 0 THEN "loss" ELSE "flat")
            /\ "pnl_usd" \in DOMAIN result
            /\ "gross_pnl_usd" \in DOMAIN result
            /\ result["pnl_usd"] = (result.return_pct * call.notional_usd) \div 10000
            /\ result["gross_pnl_usd"] = (gross * call.notional_usd) \div 10000

\* the slippage apply_entry_execution is to use for the call
SlippageToUse(call) ==
    IF call.slippage_bps # None THEN call.slippage_bps ELSE entry_slippage_bps

\* C21: for BUY_YES and BUY_NO, a reference price in (0, 1] and a slippage
\* >= 0, the fill is never below the reference, lies in [0, 1], is the
\* reference worsened by the same ratio on both sides, and is computed
\* with the explicit slippage_bps when one is given.
C21_FillWorsensWithinUnit ==
    (paper_call # NoCall /\ paper_call.done) =>
        /\ paper_call.result >= paper_call.reference_price * 1000
        /\ paper_call.result >= 0
        /\ paper_call.result <= PRICE_ONE
        /\ paper_call.result
               = Min(PRICE_ONE, (paper_call.reference_price
                                     * (10000 + SlippageToUse(paper_call))) \div 10)

\* None counts as 0 for edge_strength and confidence
OrZero(x) == IF x = None THEN 0 ELSE x

\* how close the call is to expiry: 0 when the expiry term is not computed
Closeness(seconds_to_close, round_secs) ==
    IF seconds_to_close = None \/ round_secs = None \/ round_secs <= 0 THEN 0
    ELSE round_secs - Min(Max(seconds_to_close, 0), round_secs)

NonNegativeFactors(simulation) ==
    /\ simulation.dynamic_slippage_edge_factor_bps >= 0
    /\ simulation.dynamic_slippage_confidence_factor_bps >= 0
    /\ simulation.dynamic_slippage_expiry_factor_bps >= 0

SlippageOf(call, edge_strength, confidence, seconds_to_close) ==
    compute_effective_entry_slippage_bps_of(call.simulation, edge_strength, confidence,
                                            seconds_to_close, call.round_seconds)

\* C22: the effective slippage is in [0, max_slippage_bps]; with dynamic
\* slippage on and non-negative factors it does not decrease when
\* edge_strength, confidence or closeness to expiry grows, and it is the
\* cap whenever the uncapped sum reaches the cap; with dynamic slippage
\* off it is the static slippage clamped to the same range.
C22_EffectiveSlippageBounded ==
    (paper_call # NoCall /\ paper_call.done) =>
        LET call == paper_call
            sim == call.simulation
        IN  /\ call.result >= 0
            /\ call.result <= sim.max_slippage_bps
            /\ (sim.dynamic_slippage_enabled /\ NonNegativeFactors(sim)) =>
                   /\ \A e \in SlippageArguments.edge_strength :
                          OrZero(e) >= OrZero(call.edge_strength) =>
                              SlippageOf(call, e, call.confidence, call.seconds_to_close)
                                  >= call.result
                   /\ \A c \in SlippageArguments.confidence :
                          OrZero(c) >= OrZero(call.confidence) =>
                              SlippageOf(call, call.edge_strength, c, call.seconds_to_close)
                                  >= call.result
                   /\ \A t \in SlippageArguments.seconds_to_close :
                          Closeness(t, call.round_seconds)
                              >= Closeness(call.seconds_to_close, call.round_seconds) =>
                              SlippageOf(call, call.edge_strength, call.confidence, t)
                                  >= call.result
                   /\ effective_before_clamp(sim, call.edge_strength, call.confidence,
                                             call.seconds_to_close, call.round_seconds)
                          >= sim.max_slippage_bps
                      => call.result = sim.max_slippage_bps
            /\ ~sim.dynamic_slippage_enabled =>
                   call.result = Min(Max(sim.entry_slippage_bps, 0), sim.max_slippage_bps)

\* the call of the unit test: base 50, factors 25/20/30, cap 120, edge 1.0,
\* confidence 0.9, 0 of 900 seconds left, capped at 120
C22_CappedAtMaximum ==
    /\ paper_call # NoCall
    /\ paper_call.done
    /\ "simulation" \in DOMAIN paper_call
    /\ paper_call.simulation = PaperTradeSimulationConfig(50, TRUE, 25, 20, 30, 120)
    /\ paper_call.edge_strength = 100
    /\ paper_call.confidence = 90
    /\ paper_call.seconds_to_close = 0
    /\ paper_call.round_seconds = 900
    /\ paper_call.result = 120

\* the items a caller sees in a list it was handed, the state being self
ItemsIn(list, self) == IF list.alias = NoneStr THEN list.items ELSE self[list.alias]

Items(list) == ItemsIn(list, agent_state)

\* the entries of a history are in arrival order with none missing between
InArrivalOrder(d) == \A i \in 1 .. Len(d) - 1 : d[i + 1] = d[i] + 1

\* a full history that takes an entry drops its oldest and ends with the new one
EvictsOldest(d, after, maxlen) ==
    (Len(d) = maxlen /\ after # d) =>
        /\ Len(after) = maxlen
        /\ after[maxlen] = d[maxlen] + 1
        /\ \A i \in 1 .. maxlen - 1 : after[i] = d[i + 1]

\* C23: the event history never holds more than 200 entries and the
\* paper-trade log never more than 500; adding to a full history evicts
\* the oldest entry and keeps the newest; a snapshot lists the retained
\* entries in arrival order.
C23_HistoriesBounded ==
    /\ [](/\ Len(agent_state.events) <= EVENTS_MAXLEN
          /\ Len(agent_state.paper_trades) <= PAPER_TRADES_MAXLEN
          /\ threads["reader"].result # NoCall =>
                 /\ Items(threads["reader"].result.events) = agent_state.events
                 /\ Items(threads["reader"].result.paper_trades) = agent_state.paper_trades
                 /\ InArrivalOrder(Items(threads["reader"].result.events))
                 /\ InArrivalOrder(Items(threads["reader"].result.paper_trades)))
    /\ [][/\ EvictsOldest(agent_state.events, agent_state'.events, EVENTS_MAXLEN)
          /\ EvictsOldest(agent_state.paper_trades, agent_state'.paper_trades,
                          PAPER_TRADES_MAXLEN)]_vars

\* a snapshot of two full histories that have each dropped entries
C23_FullHistoriesSnapshot ==
    /\ threads["reader"].result # NoCall
    /\ Len(agent_state.events) = EVENTS_MAXLEN
    /\ agent_state.events[1] > 1
    /\ Len(agent_state.paper_trades) = PAPER_TRADES_MAXLEN
    /\ agent_state.paper_trades[1] > 1
    /\ Len(Items(threads["reader"].result.paper_trades)) = PAPER_TRADES_MAXLEN

\* the values are None together or the arguments of one call
FromOneSetTick(price, tick_ts) ==
    \/ price = None /\ tick_ts = None
    \/ \E n \in 1 .. MaxWrites : price = TickOf(n).price /\ tick_ts = TickOf(n).tick_ts

FromOneSetOdds(yes_price, no_price, update_ts) ==
    \/ yes_price = None /\ no_price = None /\ update_ts = None
    \/ \E n \in 1 .. MaxWrites :
           /\ yes_price = OddsOf(n).yes_price
           /\ no_price = OddsOf(n).no_price
           /\ update_ts = OddsOf(n).update_ts

FromOneSetRound(round_id, close_ts) ==
    \/ round_id = None /\ close_ts = None
    \/ \E n \in 1 .. MaxWrites : round_id = RoundOf(n).round_id /\ close_ts = RoundOf(n).close_ts

\* every group of values in the dict a read returned is from one write
FromSingleWrites(name, result) ==
    IF name = "snapshot"
    THEN /\ FromOneSetTick(result.latest_price, result.latest_tick_ts)
         /\ FromOneSetOdds(result.polymarket_yes_price, result.polymarket_no_price,
                           result.polymarket_last_update_ts)
         /\ FromOneSetRound(result.active_round_id, result.round_close_ts)
    ELSE FromOneSetOdds(result.yes_price, result.no_price, result.last_update_ts)

\* C24: under every interleaving of the price feed, the odds tracker, the
\* orchestrator and the snapshot reader, a read that completes returns the
\* state of one point at which no write is in progress: latest_price and
\* latest_tick_ts are from one set_tick call, the yes price, no price and
\* update timestamp from one set_polymarket_odds call, the round id and
\* close time from one set_round call; and the event and trade lists of a
\* returned snapshot are not changed by later writes.
C24_ReadsSeeCompletedWrites ==
    [][\A t \in Threads :
          /\ (/\ threads[t].pc > 0
              /\ threads'[t].pc = 0
              /\ ~IsWriter(threads[t].call.name)) =>
                 /\ threads'[t].result = ReaderResult(agent_state, threads[t].call)
                 /\ \A w \in Threads \ {t} : threads[w].pc = 0
                 /\ FromSingleWrites(threads[t].call.name, threads'[t].result)
          /\ (/\ threads[t].pc = 0
              /\ threads'[t].pc = 0
              /\ threads[t].result # NoCall
              /\ threads[t].call.name = "snapshot") =>
                 /\ ItemsIn(threads'[t].result.events, agent_state')
                        = ItemsIn(threads[t].result.events, agent_state)
                 /\ ItemsIn(threads'[t].result.paper_trades, agent_state')
                        = ItemsIn(threads[t].result.paper_trades, agent_state)]_vars

\* the reader holds a snapshot of the first tick, an event and a trade of
\* fewer entries than the histories now have, the second tick being written
C24_SnapshotThenWrites ==
    /\ threads["reader"].pc = 0
    /\ threads["reader"].result # NoCall
    /\ threads["reader"].result.latest_price = TickOf(1).price
    /\ threads["reader"].result.latest_tick_ts = TickOf(1).tick_ts
    /\ agent_state.latest_price = TickOf(2).price
    /\ Len(Items(threads["reader"].result.events)) < Len(agent_state.events)
    /\ threads["orchestrator"].pc = 0
    /\ threads["orchestrator"].result # NoCall
    /\ threads["orchestrator"].result.yes_price = OddsOf(1).yes_price

\* the rounds whose round_closed event has been published
RoundsClosed(queue) == {queue[i] : i \in DOMAIN queue}

\* the positions of the entries this step appends to the paper log
NewPositions == (Len(paper_log) + 1) .. Len(paper_log')

\* a trade is opened only in the Active round, under its id, while its
\* close has not been detected
OpenedInActiveRound ==
    \A i \in NewPositions :
        paper_log'[i].type = "paper_trade_opened" =>
            /\ pc = "active"
            /\ pc' = "active"
            /\ paper_log'[i].round_id = window.round_id
            /\ round_activated_count[window.round_id] = 1
            /\ window.round_id \notin RoundsClosed(review_queue)
            /\ window.round_id # last_round_executed

\* paper_trade_closed is logged by the tick that detects the close, for a
\* trade of the round being closed, after the trade's paper_trade_opened
ClosedAfterOpened ==
    \A i \in NewPositions :
        paper_log'[i].type = "paper_trade_closed" =>
            /\ TickAtClose
            /\ paper_log'[i].round_id = window.round_id
            /\ \E j \in 1 .. i - 1 :
                   /\ paper_log'[j].type = "paper_trade_opened"
                   /\ paper_log'[j].id = paper_log'[i].id
                   /\ paper_log'[j].round_id = window.round_id

\* the tick that detects the close of r logs one paper_trade_closed for
\* every trade opened in r and then round_closed(r); nothing else logs
\* round_closed
RoundClosedAfterTrades ==
    /\ TickAtClose =>
           /\ \A j \in DOMAIN paper_log' :
                  (/\ paper_log'[j].type = "paper_trade_opened"
                   /\ paper_log'[j].round_id = window.round_id) =>
                      ClosedEntries(paper_log', paper_log'[j].id) = 1
           /\ review_queue' = Append(review_queue, window.round_id)
    /\ ~TickAtClose => review_queue' = review_queue

\* round_activated is published for a round only when every round
\* activated before it has its round_closed
ActivatedAfterClosed ==
    \A r \in RoundIds :
        round_activated_count'[r] > round_activated_count[r] =>
            \A q \in RoundIds \ {r} :
                round_activated_count[q] > 0 => q \in RoundsClosed(review_queue)

\* C25: every activated round r goes through round_activated(r), zero or
\* more paper_trade_opened for r, the paper_trade_closed entries for r and
\* round_closed(r), in this order; no trade of r is opened once the close
\* of r has been detected; a trade is opened only with the id of the
\* Active round; round_activated for another round comes only after
\* round_closed(r).
C25_RoundStepsInOrder ==
    [][/\ OpenedInActiveRound
       /\ ClosedAfterOpened
       /\ RoundClosedAfterTrades
       /\ ActivatedAfterClosed]_vars

\* C26: while a round is Active the first tick whose timestamp is at or
\* after close_ts settles the round, and no decision is evaluated and no
\* trade opened from such a tick: every opened trade has
\* entry_ts < round_close_ts, and every closing entry carries the
\* timestamp of a tick at or after the close.
C26_NoTradeFromTickAtClose ==
    \A i \in DOMAIN paper_log :
        /\ paper_log[i].type = "paper_trade_opened" =>
               paper_log[i].entry_ts < paper_log[i].round_close_ts
        /\ paper_log[i].type = "paper_trade_closed" =>
               paper_log[i].exit_ts >= (paper_log[i].round_id + 1) * round_seconds

\* the history lookups come first: the Chainlink row when there is one,
\* else the Binance kline, else nothing, and then the source is unset
LookupPriority ==
    \A b \in BinanceOpenPrices, c \in ChainlinkOpenPrices :
        LET reference == round_open_reference(b, c)
        IN  /\ c # None =>
                   reference.price = c /\ reference.source = "chainlink_history_rows"
            /\ (c = None /\ b # None) =>
                   reference.price = b /\ reference.source = "binance_klines"
            /\ (c = None /\ b = None) =>
                   reference.price = None /\ reference.source = NoneStr

\* the activation of a round leaves the reference of the two lookups
ReferenceAtActivation ==
    round_activated_count' # round_activated_count =>
        \E b \in BinanceOpenPrices, c \in ChainlinkOpenPrices :
            /\ round_open_btc_price' = round_open_reference(b, c).price
            /\ round_open_btc_price_source' = round_open_reference(b, c).source

\* without a reference the tick consumed sets it to its own price
ReferenceFromFirstTick ==
    (ticks' # ticks /\ round_open_btc_price = None) =>
        /\ round_open_btc_price' \in BtcPrices
        /\ round_open_btc_price_source' = "live_tick_fallback"

\* an established reference stays until the next round is activated
ReferenceKept ==
    (round_open_btc_price # None /\ round_activated_count' = round_activated_count) =>
        /\ round_open_btc_price' = round_open_btc_price
        /\ round_open_btc_price_source' = round_open_btc_price_source

\* a trade records the reference of its round, as every trade of the round
TradesRecordReference ==
    /\ \A i \in NewPositions :
           paper_log'[i].type = "paper_trade_opened" =>
               /\ paper_log'[i].btc_price_to_beat # None
               /\ paper_log'[i].btc_price_to_beat = round_open_btc_price'
               /\ paper_log'[i].btc_price_to_beat_source = round_open_btc_price_source'
    /\ \A i \in DOMAIN paper_log', j \in DOMAIN paper_log' :
           (/\ paper_log'[i].type = "paper_trade_opened"
            /\ paper_log'[j].type = "paper_trade_opened"
            /\ paper_log'[i].round_id = paper_log'[j].round_id) =>
               /\ paper_log'[i].btc_price_to_beat = paper_log'[j].btc_price_to_beat
               /\ paper_log'[i].btc_price_to_beat_source
                      = paper_log'[j].btc_price_to_beat_source

\* the tick that closes the round settles it against the reference
SettledAgainstReference ==
    TickAtClose =>
        /\ round_open_btc_price' # None
        /\ \E price \in BtcPrices, tick_ts \in TickTimes :
               \E settled \in {settle_round(window.round_id, price, tick_ts,
                                            round_open_btc_price', open_paper_trades,
                                            daily_trade_totals)} :
                   /\ open_paper_trades' = settled.open
                   /\ daily_trade_totals' = settled.daily
                   /\ paper_log' = paper_log \o settled.entries

\* C27: the round-open reference price is the value of the history lookup
\* when it returns one, otherwise the price of the first live tick of the
\* round; once established it does not change for the rest of the round,
\* every trade of the round records it and its source as price-to-beat,
\* and settlement compares the close price with it.
C27_ReferenceEstablishedOnce ==
    [][/\ LookupPriority
       /\ ReferenceAtActivation
       /\ ReferenceFromFirstTick
       /\ ReferenceKept
       /\ TradesRecordReference
       /\ SettledAgainstReference]_vars

\* two trades of a round with the Chainlink price as price-to-beat, and a
\* round before it that was closed with the price of its first tick
C27_TwoTradesOneReference ==
    /\ round_open_btc_price \in ChainlinkOpenPrices \ {None}
    /\ review_queue # << >>
    /\ \E i \in DOMAIN paper_log, j \in DOMAIN paper_log :
           /\ i < j
           /\ paper_log[i].type = "paper_trade_opened"
           /\ paper_log[j].type = "paper_trade_opened"
           /\ paper_log[i].round_id = window.round_id
           /\ paper_log[j].round_id = window.round_id
           /\ paper_log[j].btc_price_to_beat = round_open_btc_price
           /\ paper_log[j].btc_price_to_beat_source = "chainlink_history_rows"

\* settle_round was called in this step with a round-open reference
SettledWithReference ==
    /\ settle_calls' # settle_calls
    /\ last_settle'.round_open # None

\* the exit price of a trade under the realized outcome of its round
ExitPriceOf(trade, realized) ==
    IF realized = "push" THEN trade.entry_price
    ELSE IF (trade.action = "BUY_YES" /\ realized = "yes")
            \/ (trade.action = "BUY_NO" /\ realized = "no")
         THEN PRICE_ONE
         ELSE 0

\* C28: settle_round with a round-open reference closes every open trade of
\* the round against one realized outcome, yes if the close price is higher
\* than the reference, no if lower, push if equal: the exit price of a
\* BUY_YES trade is 1 exactly on yes, of a BUY_NO trade exactly on no, the
\* other side gets 0, and on push the exit price is the entry price.
C28_SettledAgainstOneOutcome ==
    [][SettledWithReference =>
          LET r == last_settle'.round_id
              round_open == last_settle'.round_open
              mine == {i \in DOMAIN open_paper_trades : open_paper_trades[i].round_id = r}
          IN  \A i \in mine :
                  \E j \in DOMAIN NewEntries :
                      LET trade == open_paper_trades[i]
                          closing == NewEntries[j]
                          close_price == closing.btc_round_close_price
                          realized == IF close_price > round_open THEN "yes"
                                      ELSE IF close_price < round_open THEN "no"
                                      ELSE "push"
                      IN  /\ closing.id = trade.id
                          /\ closing.btc_round_open_price = round_open
                          /\ closing.market_outcome = realized
                          /\ closing.exit_price = ExitPriceOf(trade, realized)
                          /\ \A k \in DOMAIN NewEntries :
                                 NewEntries[k].market_outcome = realized]_vars

\* the expected edge in basis points: nothing without edge strength or with
\* a confidence of one half or less, else edge * scaling * confidence weight
ExpectedEdgeBps(edge_strength, confidence, scaling) ==
    IF edge_strength = None \/ confidence = None THEN 0
    ELSE IF edge_strength <= 0 \/ confidence <= 50 THEN 0
    ELSE (edge_strength * scaling * (Min(confidence, 100) - 50) * 2) \div 10000

\* the estimated cost in basis points: effective slippage, adverse
\* selection and the gas fee of both sides in basis points of the notional
TotalCostBps(notional, fee, adverse, slippage) ==
    IF notional <= 0 THEN INF_BPS
    ELSE slippage + adverse + (2 * fee * 10000) \div notional

GateMinimums == {-50, 0, 100}
GateNotionals == {-100, 0, 2500, 10000}
GateFees == {0, 5}
GateAdverse == {0, 30}
GateSlippages == {0, 50, 200}
GateEdges == {None, 0, 40, 80}
GateConfidences == {None, 40, 50, 62, 100}

\* the gate under any configuration: the estimates are the ones above, a
\* minimum at or below zero never blocks, whatever the cost, and a positive
\* one blocks exactly the net edges below it
GateOfAnyConfiguration ==
    \A minimum \in GateMinimums, notional \in GateNotionals, fee \in GateFees,
       adverse \in GateAdverse, slippage \in GateSlippages,
       edge_strength \in GateEdges, confidence \in GateConfidences :
        LET expected == estimate_expected_edge_bps(edge_strength, confidence,
                                                   paper_edge_strength_to_bps)
            cost == estimate_total_cost_bps_of(notional, fee, adverse, slippage)
        IN  /\ expected = ExpectedEdgeBps(edge_strength, confidence,
                                          paper_edge_strength_to_bps)
            /\ cost = TotalCostBps(notional, fee, adverse, slippage)
            /\ notional <= 0 => expected - cost < -INF_BPS \div 2
            /\ minimum <= 0 => ~net_edge_below_threshold(minimum, expected - cost)
            /\ minimum > 0 =>
                   (net_edge_below_threshold(minimum, expected - cost)
                        <=> expected - cost < minimum)

\* the net edge of a trade opened on this tick from the odds given
NetEdgeAtEntry(entry, odds) ==
    LET edge_strength == Abs(odds[1] - odds[2])
        slippage == compute_effective_entry_slippage_bps(
                        edge_strength, entry.confidence,
                        Max(0, entry.round_close_ts - entry.ts), round_seconds)
    IN  ExpectedEdgeBps(edge_strength, entry.confidence, paper_edge_strength_to_bps)
        - TotalCostBps(entry.notional_usd, gas_fee_usd_per_side, adverse_selection_bps,
                       slippage)

\* a trade opened on this tick has the minimum net edge
OpenedWithNetEdge ==
    \A i \in NewPositions :
        paper_log'[i].type = "paper_trade_opened" =>
            \/ paper_min_net_edge_bps <= 0
            \/ \E odds \in OddsSnapshots :
                   /\ odds[1] # None /\ odds[2] # None
                   /\ paper_log'[i].signal_price
                          = (IF paper_log'[i].action = "BUY_YES" THEN odds[1] ELSE odds[2])
                   /\ NetEdgeAtEntry(paper_log'[i], odds) >= paper_min_net_edge_bps

\* the tick passed the risk guard and was executed, and opened no trade
TickBlockedAfterExecution ==
    /\ ticks' # ticks
    /\ recorded' # recorded
    /\ Len(paper_log') = Len(paper_log)

\* a tick blocked at the gate is reported as net_edge_blocked with a net
\* edge below the minimum (the event filter sets an immaterial repeat
\* aside), leaves the open trades alone and the loop active
BlockedTickReported ==
    TickBlockedAfterExecution =>
        /\ last_logged_net_edge_blocked' # NoEvent
        /\ last_logged_net_edge_blocked'.round_id = window.round_id
        /\ last_logged_net_edge_blocked'.estimated_net_edge_bps
               = last_logged_net_edge_blocked'.expected_edge_bps
                 - last_logged_net_edge_blocked'.estimated_total_cost_bps
        /\ last_logged_net_edge_blocked'.estimated_net_edge_bps < paper_min_net_edge_bps
        /\ last_logged_risk_blocked' = last_logged_risk_blocked
        /\ open_paper_trades' = open_paper_trades
        /\ pc' = "active"

\* C29: a paper trade is opened on a tick only if the minimum net edge is
\* at or below zero or expected edge minus estimated total cost reaches it;
\* the cost is effective slippage plus adverse selection plus the gas fee of
\* both sides in basis points of the notional, infinite for a notional at or
\* below zero; the expected edge is 0 when the edge strength is 0 or the
\* confidence at most 0.5; with a minimum at or below zero the gate never
\* blocks; a blocked tick is reported as net_edge_blocked, opens no trade
\* and the loop goes on.
C29_NetEdgeGate ==
    [][/\ GateOfAnyConfiguration
       /\ OpenedWithNetEdge
       /\ BlockedTickReported]_vars

\* a tick was blocked at the gate in the round that a trade was opened in
C29_BlockedAndOpened ==
    /\ pc = "active"
    /\ last_logged_net_edge_blocked # NoEvent
    /\ last_logged_net_edge_blocked.round_id = window.round_id
    /\ last_logged_net_edge_blocked.expected_edge_bps > 0
    /\ recorded.count[window.round_id] = 2
    /\ TradesOpened(window.round_id) = 1

AlignmentConfidences == 0 .. 100
AlignmentPrices == {10, 50, 90}
FilterModes == {"classic", "btc_updown"}
FilterMinimums == {35, 60}

\* the odds strictly favour the side of the action
OddsFavour(action, yes_price, no_price) ==
    IF action = "BUY_YES" THEN yes_price > no_price ELSE no_price > yes_price

\* the alignment of any confidence with any pair of odds, and the minimum
\* of either mode
AlignmentOfAnyOdds ==
    /\ \A action \in Actions, c \in AlignmentConfidences,
          yes_price \in AlignmentPrices, no_price \in AlignmentPrices :
           LET adjusted == odds_adjusted_confidence(action, c, yes_price, no_price)
           IN  /\ adjusted \in 0 .. 100
               /\ OddsFavour(action, yes_price, no_price) =>
                      adjusted = (IF c + 5 > 100 THEN 100 ELSE c + 5)
               /\ ~OddsFavour(action, yes_price, no_price) =>
                      adjusted = (IF c - 8 < 0 THEN 0 ELSE c - 8)
    /\ \A mode \in FilterModes, minimum \in FilterMinimums :
           odds_filter_min_confidence_of(mode, minimum)
               = (IF mode = "classic" THEN 55 ELSE minimum)

\* the candidate of a tick with both odds has an adjusted confidence below
\* the minimum of the mode
BelowModeMinimum(decision, odds) ==
    /\ odds[1] # None /\ odds[2] # None
    /\ (IF OddsFavour(decision.action, odds[1], odds[2])
        THEN Min(100, decision.confidence + 5)
        ELSE Max(0, decision.confidence - 8))
           < (IF strategy_mode = "classic" THEN 55
              ELSE btc_updown_min_confidence_to_trade)

\* the tick of a discarded candidate is reported as odds_filter_blocked (the
\* event filter sets an immaterial repeat aside) and reaches neither the
\* opportunity log nor the risk checks nor the executor nor the paper log
DiscardedAtOddsFilter(decision) ==
    /\ last_logged_odds_filter_blocked' # NoEvent
    /\ last_logged_odds_filter_blocked'.round_id = window.round_id
    /\ last_logged_odds_filter_blocked'.action = decision.action
    /\ last_logged_opportunity' = last_logged_opportunity
    /\ last_logged_risk_blocked' = last_logged_risk_blocked
    /\ last_logged_net_edge_blocked' = last_logged_net_edge_blocked
    /\ risk_guard' = risk_guard
    /\ executor_calls' = executor_calls
    /\ recorded' = recorded
    /\ open_paper_trades' = open_paper_trades
    /\ paper_log' = paper_log
    /\ pc' = "active"

\* C30: with both odds present the adjusted confidence is min(1, c + 0.05)
\* if the odds strictly favour the side of the action and max(0, c - 0.08)
\* otherwise, equal odds included, so it stays in [0,1]; a candidate whose
\* adjusted confidence is below the minimum of the mode (0.55 in classic
\* mode, the configured composite minimum in composite mode) is discarded as
\* odds_filter_blocked and reaches neither the opportunity log nor the
\* kill-switch check nor the risk guard nor the executor.
C30_OddsFilter ==
    [][/\ AlignmentOfAnyOdds
       /\ TickBeforeClose =>
              \A decision \in Decisions, odds \in OddsSnapshots :
                  (/\ BelowModeMinimum(decision, odds)
                   /\ \E price \in BtcPrices, tick_ts \in TickTimes :
                          OnTick(price, tick_ts, decision, odds))
                      => DiscardedAtOddsFilter(decision)]_vars

\* a candidate was discarded at the odds filter while the kill switch was
\* on and the guard had a trade of the round on record
C30_DiscardedBeforeRiskChecks ==
    /\ pc = "active"
    /\ kill_switch_enabled
    /\ last_logged_odds_filter_blocked # NoEvent
    /\ last_logged_odds_filter_blocked.round_id = window.round_id
    /\ last_logged_odds_filter_blocked.action = "BUY_NO"
    /\ last_logged_risk_blocked = NoEvent
    /\ recorded.count[window.round_id] = 1

\* the snapshot lacks the yes or the no price: the context carries neither
\* and the entry price of either side is unavailable
EntryPriceUnavailable(odds) == odds[1] = None \/ odds[2] = None

\* this step is the tick of the candidate with the odds given, under the
\* default minimum net edge
TickOfCandidate(decision, odds) ==
    \E price \in BtcPrices, tick_ts \in TickTimes :
        OnTick_of(default_min_net_edge_bps, price, tick_ts, decision, odds)

\* the tick is a risk_blocked denial of the candidate (the filter of
\* discrete events sets the repeat of one aside), opens no trade and
\* leaves the loop active
DeniedAsRiskBlocked(decision) ==
    /\ paper_log' = paper_log
    /\ open_paper_trades' = open_paper_trades
    /\ last_logged_risk_blocked' # NoEvent
    /\ last_logged_risk_blocked'.round_id = window.round_id
    /\ last_logged_risk_blocked'.action = decision.action
    /\ pc' = "active"

\* C31 as stated: a candidate whose entry price is unavailable opens no
\* paper trade, its tick is recorded as a denial with reason
\* missing_polymarket_entry_price and the loop goes on to the next tick.
C31_MissingPriceDenied ==
    [][TickBeforeClose =>
          \A decision \in Decisions, odds \in OddsSnapshots :
              (EntryPriceUnavailable(odds) /\ TickOfCandidate(decision, odds)) =>
                  /\ DeniedAsRiskBlocked(decision)
                  /\ last_logged_risk_blocked'.reason
                         = "missing_polymarket_entry_price"]_vars

\* the kill switch and the risk guard both let the tick pass
PassesRiskChecks ==
    /\ ~kill_switch_enabled
    /\ evaluate(risk_guard, window.round_id, now).allowed

\* C31, amended: with the net-edge gate off, a candidate whose entry price
\* is unavailable opens no paper trade and the loop goes on to the next
\* tick; its tick is recorded as a denial with reason
\* missing_polymarket_entry_price when the kill switch is off and the risk
\* guard allows the tick, and with the reason of the kill switch or of the
\* risk guard otherwise, since those are checked first.
C31_MissingPriceDeniedAfterRiskChecks ==
    [][TickBeforeClose =>
          \A decision \in Decisions, odds \in OddsSnapshots :
              (EntryPriceUnavailable(odds) /\ TickOfCandidate(decision, odds)) =>
                  /\ DeniedAsRiskBlocked(decision)
                  /\ PassesRiskChecks <=>
                         last_logged_risk_blocked'.reason
                             = "missing_polymarket_entry_price"
                  /\ (kill_switch_enabled /\ ~PassesRiskChecks) =>
                         last_logged_risk_blocked'.reason = "kill_switch_enabled"
                  /\ (~kill_switch_enabled /\ ~PassesRiskChecks) =>
                         last_logged_risk_blocked'.reason
                             = evaluate(risk_guard, window.round_id, now).reason]_vars

\* a tick was denied for its missing entry price after the executor ran,
\* and the round has no trade
C31_DeniedForMissingPrice ==
    /\ pc = "active"
    /\ last_logged_risk_blocked # NoEvent
    /\ last_logged_risk_blocked.round_id = window.round_id
    /\ last_logged_risk_blocked.reason = "missing_polymarket_entry_price"
    /\ recorded.count[window.round_id] >= 1
    /\ TradesOpened(window.round_id) = 0

\* what the momentum strategy says of the tick once 8 prices are known
MomentumSays(prices_known, tick) ==
    IF prices_known < 8 \/ tick.return_short = None THEN NoneStr
    ELSE IF tick.return_short > 12 THEN "BUY_YES"
    ELSE IF tick.return_short < -12 THEN "BUY_NO"
    ELSE NoneStr

\* what the mean-reversion strategy says of the tick once 30 prices are known
MeanReversionSays(prices_known, tick) ==
    IF prices_known < 30 \/ tick.zscore = None THEN NoneStr
    ELSE IF tick.zscore > 17500 THEN "BUY_NO"
    ELSE IF tick.zscore < -17500 THEN "BUY_YES"
    ELSE NoneStr

\* C32: on_tick returns the candidate of the composite strategy as the live
\* decision only in composite mode with the live flag set; in composite
\* mode with the live flag off it returns nothing on every tick; in classic
\* mode it returns the decision of momentum if it has one, else that of
\* mean reversion, and nothing when both abstain, as on a tick with fewer
\* than 8 prices known.
C32_RouterDecision ==
    (router_call # NoCall /\ "router" \in DOMAIN router_call /\ router_call.ticks > 0) =>
        LET self == router_call.router
            decision == router_call.decision
            composite == self.strategy_mode = "btc_updown"
            momentum == MomentumSays(self.prices_len, router_call.tick)
            mean_reversion == MeanReversionSays(self.prices_len, router_call.tick)
        IN  /\ decision.strategy = "btc_updown" =>
                   /\ composite /\ self.btc_updown_live_enabled
                   /\ router_call.shadow.candidate
                   /\ decision.action = router_call.shadow.action
            /\ (composite /\ self.btc_updown_live_enabled /\ router_call.shadow.candidate) =>
                   decision.strategy = "btc_updown"
            /\ (composite /\ ~self.btc_updown_live_enabled) => decision = NoRouterDecision
            /\ (composite /\ ~router_call.shadow.candidate) => decision = NoRouterDecision
            /\ ~composite =>
                   /\ momentum # NoneStr =>
                          decision.strategy = "momentum" /\ decision.action = momentum
                   /\ (momentum = NoneStr /\ mean_reversion # NoneStr) =>
                          /\ decision.strategy = "mean_reversion"
                          /\ decision.action = mean_reversion
                   /\ (momentum = NoneStr /\ mean_reversion = NoneStr) =>
                          decision = NoRouterDecision
                   /\ self.prices_len < 8 => decision = NoRouterDecision

\* the composite candidate of the second tick went live
C32_CompositeWentLive ==
    /\ router_call # NoCall /\ "router" \in DOMAIN router_call
    /\ router_call.ticks = 2
    /\ router_call.router.strategy_mode = "btc_updown"
    /\ router_call.router.btc_updown_live_enabled
    /\ router_call.decision.strategy = "btc_updown"
    /\ Len(router_call.router.recent_actions) = 2

\* the composite score and confidence of a state
CompositeOf(state) ==
    _calculate_composite([time_decay |-> _signal_time_decay(state),
                          orderbook_imbalance |-> _signal_orderbook_imbalance(state),
                          trade_momentum |-> _signal_trade_momentum(state),
                          btc_price_movement |-> _signal_btc_price_movement(state),
                          price_inefficiency |-> _signal_price_inefficiency(state),
                          feed_comparison |-> _signal_feed_comparison(state)])

\* more than 75% of the recorded actions are BUY_NO
MostlyBuyNo(history) ==
    /\ history # << >>
    /\ 4 * Cardinality({i \in DOMAIN history : history[i] = "BUY_NO"}) > 3 * Len(history)

\* the minimum |score|, in 1e-4, asked of the candidate action
RequiredScore(history, action) ==
    IF action = "BUY_NO" /\ MostlyBuyNo(history)
    THEN btc_updown_min_score_to_trade + 500
    ELSE btc_updown_min_score_to_trade

\* the other conditions of acceptance: confidence, entry price, trade size
OtherwiseAcceptable(state, action, confidence) ==
    LET entry_price == IF action = "BUY_YES" THEN state.polymarket_yes_price
                       ELSE state.polymarket_no_price
    IN  /\ confidence >= btc_updown_min_confidence_to_trade * 100
        /\ entry_price # None => entry_price <= btc_updown_max_entry_price
        /\ _calculate_position_size(confidence,
                                    IF entry_price # None THEN entry_price ELSE 5000)
               >= btc_updown_min_trade_size_usd

\* the last 40 of the recorded actions followed by the one accepted
LastFortyWith(history, action) ==
    LET all == Append(history, action)
    IN  SubSeq(all, Max(1, Len(all) - 39), Len(all))

\* C33: the action history holds at most the 40 most recent accepted
\* candidate actions and a rejected candidate is not history; the
\* candidate is BUY_YES if the composite score is above 0 and BUY_NO
\* otherwise; the |score| required is min_score_to_trade + 0.05 when more
\* than 75% of the recorded actions are BUY_NO and the candidate is BUY_NO,
\* and min_score_to_trade in every other case, a BUY_YES candidate included.
C33_ImbalanceGuard ==
    (router_call # NoCall /\ "before" \in DOMAIN router_call /\ router_call.ticks > 0) =>
        LET history == router_call.before
            shadow == router_call.shadow
            composite == CompositeOf(router_call.state)
            score == composite[1]
            action == IF score > 0 THEN "BUY_YES" ELSE "BUY_NO"
            required == RequiredScore(history, action)
        IN  /\ Len(router_call._recent_actions) <= 40
            /\ shadow.candidate <=>
                   /\ Abs(score) >= required
                   /\ OtherwiseAcceptable(router_call.state, action, composite[2])
            /\ shadow.candidate =>
                   /\ shadow.action = action
                   /\ shadow.score = score
                   /\ router_call._recent_actions = LastFortyWith(history, action)
            /\ ~shadow.candidate => router_call._recent_actions = history
            /\ (action = "BUY_YES" /\ Abs(score) >= btc_updown_min_score_to_trade
                    /\ OtherwiseAcceptable(router_call.state, action, composite[2])) =>
                   shadow.candidate

\* a BUY_NO candidate between the two thresholds was rejected by a full
\* history of more than 75% BUY_NO, after an accepted BUY_YES candidate
\* between the thresholds had displaced the oldest action of that history
C33_RaisedForBuyNoOnly ==
    /\ router_call # NoCall /\ "before" \in DOMAIN router_call
    /\ router_call.ticks = 2
    /\ Len(router_call.before) = 40
    /\ router_call.before[40] = "BUY_YES"
    /\ MostlyBuyNo(router_call.before)
    /\ ~router_call.shadow.candidate
    /\ router_call._recent_actions = router_call.before
    /\ CompositeOf(router_call.state)[1] \in -2499 .. -2000
    /\ OtherwiseAcceptable(router_call.state, "BUY_NO", CompositeOf(router_call.state)[2])

\* the event differs from the baseline of its type in round id or action,
\* or by the threshold in a tracked metric, or there is no baseline yet
MaterialAgainst(event, last_logged, metric_keys) ==
    \/ last_logged = NoEvent
    \/ ~SameIdentity(event, last_logged)
    \/ \E key \in metric_keys : MetricTriggers(event, last_logged, key)

\* the confidence of the candidate after the odds alignment
AlignedConfidence(decision, odds) ==
    IF odds[1] = None \/ odds[2] = None THEN decision.confidence
    ELSE IF OddsFavour(decision.action, odds[1], odds[2])
    THEN Min(100, decision.confidence + 5)
    ELSE Max(0, decision.confidence - 8)

\* the three events of a candidate, as the tick would emit them
OpportunityOf(price, decision, odds) ==
    LET both == odds[1] # None /\ odds[2] # None
    IN  [round_id |-> window.round_id, action |-> decision.action, price |-> price,
         polymarket_yes_price |-> IF both THEN odds[1] ELSE None,
         polymarket_no_price |-> IF both THEN odds[2] ELSE None]

OddsFilterBlockedOf(price, decision, odds) ==
    [action |-> decision.action, round_id |-> window.round_id,
     yes_price |-> odds[1], no_price |-> odds[2], price |-> price]

NetEdgeBlockedOf(price, decision, odds) ==
    LET edge_strength == IF odds[1] = None \/ odds[2] = None THEN None
                         ELSE Abs(odds[1] - odds[2])
        confidence == AlignedConfidence(decision, odds)
        expected == ExpectedEdgeBps(edge_strength, confidence, paper_edge_strength_to_bps)
        cost == TotalCostBps(paper_trade_notional_usd, gas_fee_usd_per_side,
                             adverse_selection_bps,
                             compute_effective_entry_slippage_bps(
                                 edge_strength, confidence,
                                 Max(0, window.close_ts - now), round_seconds))
    IN  [action |-> decision.action, round_id |-> window.round_id,
         expected_edge_bps |-> expected, estimated_total_cost_bps |-> cost,
         estimated_net_edge_bps |-> expected - cost, price |-> price]

\* the baseline of a type after a tick: the event if the tick came to emit
\* one and it is material against the baseline, the baseline otherwise
BaselineAfter(reached, event, last_logged, metric_keys) ==
    IF reached /\ MaterialAgainst(event, last_logged, metric_keys)
    THEN event ELSE last_logged

\* the baselines in the result of the tick of a candidate
BaselinesOfCandidate(result, price, decision, odds) ==
    LET blocked_at_filter == BelowModeMinimum(decision, odds)
        net_edge == NetEdgeBlockedOf(price, decision, odds)
        blocked_at_gate == /\ ~blocked_at_filter
                           /\ PassesRiskChecks
                           /\ paper_min_net_edge_bps > 0
                           /\ net_edge.estimated_net_edge_bps < paper_min_net_edge_bps
    IN  /\ result.last_logged_odds_filter_blocked
               = BaselineAfter(blocked_at_filter, OddsFilterBlockedOf(price, decision, odds),
                               last_logged_odds_filter_blocked, OddsFilterMetricKeys)
        /\ result.last_logged_opportunity
               = BaselineAfter(~blocked_at_filter, OpportunityOf(price, decision, odds),
                               last_logged_opportunity, OpportunityMetricKeys)
        /\ result.last_logged_net_edge_blocked
               = BaselineAfter(blocked_at_gate, net_edge,
                               last_logged_net_edge_blocked, NetEdgeMetricKeys)

\* C34: the baseline of each material event type (opportunity_detected,
\* odds_filter_blocked, net_edge_blocked) is the last emitted event of the
\* type and changes only on emission: a suppressed event leaves it, so a
\* drift is emitted as soon as it reaches the threshold against the last
\* emitted event, and an emitted event differs from the one emitted before
\* it in round id, in action, or by the threshold in a tracked metric.
C34_BaselineIsLastEmitted ==
    (pc = "active" /\ now < window.close_ts) =>
        \A price \in DriftPrices, tick_ts \in TickTimes, decision \in Decisions,
           odds \in OddsSnapshots :
            BaselinesOfCandidate(TickResult(price, tick_ts, decision, odds),
                                 price, decision, odds)

\* round 0: the first tick, at 100, opened a BUY_YES trade; the second, at
\* 102, was blocked at the gate and its opportunity suppressed; the third,
\* at 104, was denied by the cap and its opportunity emitted against 100
C34_DriftEmitted ==
    /\ pc = "active" /\ window.round_id = 0 /\ ticks = 3
    /\ round_open_btc_price = 100
    /\ round_open_btc_price_source = "live_tick_fallback"
    /\ Len(paper_log) = 1 /\ paper_log[1].action = "BUY_YES"
    /\ recorded.count[0] = 2
    /\ last_logged_net_edge_blocked # NoEvent
    /\ last_logged_net_edge_blocked.price = 102
    /\ last_logged_net_edge_blocked.action = "BUY_YES"
    /\ last_logged_opportunity # NoEvent
    /\ last_logged_opportunity.price = 104
    /\ last_logged_opportunity.action = "BUY_YES"
    /\ last_logged_risk_blocked # NoEvent
    /\ last_logged_risk_blocked.action = "BUY_YES"
    /\ last_logged_risk_blocked.reason = "max_trades_per_round"

\* every sleep asked for so far lasts between 0.2 s and 2 s
SleepWithinLimits ==
    wait_call.slept # None =>
        (MIN_SLEEP <= wait_call.slept /\ wait_call.slept <= MAX_SLEEP)

\* C35: under a clock that keeps advancing and a configuration with
\* 0 < activation_lead_seconds <= round_seconds, wait_until_activation
\* eventually returns from every starting time, and every sleep it asks for,
\* before activation and after a missed close, lasts at least 0.2 s and at
\* most 2 s.
C35_WaitEventuallyReturns ==
    /\ []SleepWithinLimits
    /\ <>(wait_call.pc = "returned")

\* with the whole round active, the call crossed the close between its two
\* reads, slept 0.2 s after the missed close and returned round 1
C35_ReturnedAfterMissedClose ==
    /\ wait_call.pc = "returned"
    /\ scheduler.activation_lead_seconds = scheduler.round_seconds
    /\ wait_call.window.round_id = 1
    /\ wait_call.slept = MIN_SLEEP

(***************************************************************************)
(* main.py: the two round-open lookups, by what the venue answers.  Each   *)
(* function returns a price or None, or lets an exception out: its         *)
(* "except (httpx.HTTPError, ValueError, TypeError)" catches transport     *)
(* errors, timeouts, error statuses, invalid JSON and values float()       *)
(* rejects, and its isinstance checks turn the shapes they test into None; *)
(* a call of .get on a payload that is not a mapping raises                *)
(* AttributeError, which the clause does not name.  SpecLookup is the      *)
(* round loop with the lookups answered in every such way.                 *)
(***************************************************************************)
Raised == -999998

BinanceResponses ==
    {"open_price", "unsupported_round_length", "transport_error", "timeout",
     "error_status", "invalid_json", "payload_not_a_list", "empty_list",
     "row_too_short", "open_not_a_number"}

ChainlinkResponses ==
    {"open_price", "not_configured", "transport_error", "timeout", "error_status",
     "invalid_json", "auth_payload_not_a_mapping", "auth_d_not_a_mapping",
     "no_token", "history_payload_not_a_mapping", "no_candles", "candle_too_short",
     "open_not_a_number"}

\* _fetch_round_open_price: the first kline's open, else None
_fetch_round_open_price(response) ==
    IF response = "open_price" THEN 99 ELSE None

\* _fetch_chainlink_round_open_price: the open of the selected candle, else
\* None; auth_payload.get, auth_payload.get("d", {}).get and
\* history_payload.get, called on what is not a mapping, raise
\* AttributeError out of the function
_fetch_chainlink_round_open_price(response) ==
    IF response = "open_price" THEN 101
    ELSE IF response \in {"auth_payload_not_a_mapping", "auth_d_not_a_mapping",
                          "history_payload_not_a_mapping"}
    THEN Raised
    ELSE None

\* run(): the two lookups of a round the loop has not executed, then
\* set_round and round_activated; an exception out of a lookup ends run()
RoundOpenLookup(binance_response, chainlink_response) ==
    IF _fetch_chainlink_round_open_price(chainlink_response) = Raised
    THEN /\ pc = "woken"
         /\ ~AlreadyExecuted(last_round_executed, window.round_id)
         /\ pc' = "crashed"
         /\ UNCHANGED <<state_vars, clock_vars, window, last_round_executed,
                        round_open_btc_price, round_open_btc_price_source,
                        last_logged_opportunity, last_logged_odds_filter_blocked,
                        last_logged_risk_blocked, last_logged_net_edge_blocked,
                        round_activated_count, review_queue, ticks, trade_vars,
                        guard_vars, kill_switch_enabled, caller_vars, settle_vars,
                        call_vars>>
    ELSE ActivateRound(_fetch_round_open_price(binance_response),
                       _fetch_chainlink_round_open_price(chainlink_response))

LookupNext ==
    \/ ClockAdvance
    \/ ClockBack
    \/ WaitUntilActivation
    \/ SkipExecutedRound
    \/ \E binance_response \in BinanceResponses, chainlink_response \in ChainlinkResponses :
           RoundOpenLookup(binance_response, chainlink_response)
    \/ \E price \in BtcPrices, tick_ts \in TickTimes, decision \in Decisions \cup {NoDecision},
          odds_snapshot \in OddsSnapshots :
           OnTick(price, tick_ts, decision, odds_snapshot)

SpecLookup == Init /\ [][LookupNext]_vars

\* the loop leaves the lookups of a round it has not executed
LeavesLookups ==
    /\ pc = "woken"
    /\ ~AlreadyExecuted(last_round_executed, window.round_id)
    /\ pc' # pc

\* the first tick of a round without a reference supplies it
FirstTickSuppliesReference ==
    (TickBeforeClose /\ round_open_btc_price = None) =>
        /\ round_open_btc_price' \in BtcPrices
        /\ round_open_btc_price_source' = "live_tick_fallback"

\* C36: whatever the two round-open lookups meet (transport error, timeout,
\* error status, malformed or unexpectedly shaped payload, unsupported round
\* length), the round is activated, with the Chainlink open as reference if
\* that lookup returned one, else the Binance open, else no reference until
\* the first tick supplies it, and the tick loop of the round runs.
C36_LookupFailureAbsorbed ==
    [][/\ LeavesLookups =>
              /\ pc' = "active"
              /\ round_activated_count'[window.round_id]
                     = round_activated_count[window.round_id] + 1
              /\ round_open_btc_price' \in {None, 99, 101}
              /\ round_open_btc_price' = 99 =>
                     round_open_btc_price_source' = "binance_klines"
              /\ round_open_btc_price' = 101 =>
                     round_open_btc_price_source' = "chainlink_history_rows"
       /\ FirstTickSuppliesReference]_vars

\* the paper_trade_closed entries among the first n entries logged whose
\* day is d, as positions in the log
ClosedOfDay(d, n) ==
    {i \in 1 .. n : /\ paper_log[i].type = "paper_trade_closed"
                    /\ paper_log[i].day_utc = d}

\* the sum of pnl_usd over the first n positions of the log that are in S
RECURSIVE PnlSum(_, _)
PnlSum(S, n) ==
    IF n = 0 THEN 0
    ELSE PnlSum(S, n - 1) + (IF n \in S THEN paper_log[n].pnl_usd ELSE 0)

\* the totals of day d over the entries closed among the first n logged
TotalsOfDay(d, n) ==
    LET closed == ClosedOfDay(d, n)
    IN  [closed_trades |-> Cardinality(closed),
         wins |-> Cardinality({i \in closed : paper_log[i].outcome = "win"}),
         losses |-> Cardinality({i \in closed : paper_log[i].outcome = "loss"}),
         invalid |-> Cardinality({i \in closed : paper_log[i].outcome = "invalid"}),
         realized_pnl_usd |-> PnlSum(closed, n)]

\* the totals kept for each day are those of the day's closing entries, the
\* closed trades counted as neither win, loss nor invalid are the flat
\* ones, and each closing entry carries the totals of its day as they were
\* once it was counted
DailyTotalsMatchEntries ==
    /\ \A i \in DOMAIN paper_log :
           paper_log[i].type = "paper_trade_closed" =>
               /\ paper_log[i].day_utc = DayOf(paper_log[i].exit_ts)
               /\ paper_log[i].day_utc \in DOMAIN daily_trade_totals
               /\ LET then == TotalsOfDay(paper_log[i].day_utc, i)
                  IN  /\ paper_log[i].day_closed_trades = then.closed_trades
                      /\ paper_log[i].day_wins = then.wins
                      /\ paper_log[i].day_losses = then.losses
                      /\ paper_log[i].day_invalid = then.invalid
                      /\ paper_log[i].day_realized_pnl_usd = then.realized_pnl_usd
    /\ \A d \in DOMAIN daily_trade_totals :
           /\ daily_trade_totals[d] = TotalsOfDay(d, Len(paper_log))
           /\ daily_trade_totals[d].wins + daily_trade_totals[d].losses
                + daily_trade_totals[d].invalid <= daily_trade_totals[d].closed_trades
           /\ daily_trade_totals[d].closed_trades
                - (daily_trade_totals[d].wins + daily_trade_totals[d].losses
                   + daily_trade_totals[d].invalid)
                = Cardinality({i \in ClosedOfDay(d, Len(paper_log)) :
                                  paper_log[i].outcome = "flat"})

\* no counter of a day ever goes down and no day is dropped
DailyCountersGrow ==
    \A d \in DOMAIN daily_trade_totals :
        /\ d \in DOMAIN daily_trade_totals'
        /\ daily_trade_totals'[d].closed_trades >= daily_trade_totals[d].closed_trades
        /\ daily_trade_totals'[d].wins >= daily_trade_totals[d].wins
        /\ daily_trade_totals'[d].losses >= daily_trade_totals[d].losses
        /\ daily_trade_totals'[d].invalid >= daily_trade_totals[d].invalid

\* C37: for every UTC day, the day of the close timestamp, closed_trades is
\* the number of paper_trade_closed entries of the day, wins + losses +
\* invalid is at most closed_trades and short of it by the flat trades,
\* realized_pnl_usd is the sum of the entries' pnl_usd, the counters never
\* decrease, and the day totals in a closing entry are the totals right
\* after that trade was counted.
C37_DailyTotals ==
    /\ []DailyTotalsMatchEntries
    /\ [][DailyCountersGrow]_vars

\* two trades were closed on one day by two calls: the entry of the first
\* carries a day total of one closed trade, that of the second of two
C37_TwoClosedOnOneDay ==
    \E i, j \in DOMAIN paper_log :
        /\ i < j
        /\ paper_log[i].type = "paper_trade_closed"
        /\ paper_log[j].type = "paper_trade_closed"
        /\ paper_log[i].day_utc = paper_log[j].day_utc
        /\ paper_log[i].round_id # paper_log[j].round_id
        /\ paper_log[i].day_closed_trades = 1
        /\ paper_log[j].day_closed_trades = 2
        /\ daily_trade_totals[paper_log[j].day_utc].closed_trades = 2

(***************************************************************************)
(* review/client.py: ReviewClient.run.  SpecReview runs one call under     *)
(* every max_retries of ReviewMaxRetries, each attempt ending in a result, *)
(* an exception of _call_once or the timeout of asyncio.wait_for; the call *)
(* is kept in material_call.  Times are in hundredths of a second.  The    *)
(* coroutine is scheduled as long as it can run: an attempt ends, by the   *)
(* timeout at the latest, and a backoff sleep ends.                        *)
(***************************************************************************)
MaxReviewRetries == 3
BACKOFF_CAP == 200
BACKOFF_BASE == 35
ReviewMaxRetries == -2 .. MaxReviewRetries
AttemptOutcomes == {"result", "error", "timeout"}
BackoffJitters == {5, 15, 25}

attempts_of_NoFloor(max_retries) == max_retries + 1

\* "attempts = max(0, self._config.max_retries) + 1"
attempts_of(max_retries) == Max(0, max_retries) + 1

\* "min(2.0, (0.35 * (2**attempt)) + random.uniform(0.05, 0.25))"
backoff_of(attempt, jitter) == Min(BACKOFF_CAP, BACKOFF_BASE * (2 ^ attempt) + jitter)

InitReview ==
    /\ InitRun
    /\ scheduler = RoundScheduler(round_seconds, activation_lead_seconds)
    /\ round_call = NoCall
    /\ wait_call = WaitIdle
    /\ \E max_retries \in ReviewMaxRetries :
           material_call = [max_retries |-> max_retries,
                            attempts |-> attempts_of(max_retries),
                            attempt |-> 0,
                            pc |-> "for",
                            calls |-> 0,
                            failed |-> 0,
                            last_error |-> NoneStr,
                            slept |-> None,
                            returned |-> None]
    /\ router_call = NoCall
    /\ paper_call = NoCall

\* one pass of "for attempt in range(attempts)": the attempt under
\* wait_for, which returns its result, or whose exception or timeout is
\* kept as last_error; after the last attempt the loop is left for the
\* raise, and a range without elements goes to the raise at once
ReviewAttempt(outcome) ==
    /\ material_call.pc = "for"
    /\ material_call' =
           IF material_call.attempt >= material_call.attempts
           THEN [material_call EXCEPT !.pc = "raised"]
           ELSE IF outcome = "result"
           THEN [material_call EXCEPT !.calls = @ + 1,
                                      !.returned = material_call.calls + 1,
                                      !.pc = "returned"]
           ELSE [material_call EXCEPT
                    !.calls = @ + 1,
                    !.failed = @ + 1,
                    !.last_error = outcome,
                    !.pc = IF material_call.attempt >= material_call.attempts - 1
                           THEN "raised" ELSE "sleeping"]
    /\ UNCHANGED <<state_vars, clock_vars, loop_vars, trade_vars, guard_vars, kill_switch_enabled,
                   caller_vars, settle_vars, scheduler, round_call, wait_call,
                   router_call, paper_call>>

\* "await asyncio.sleep(...)" between two attempts, then the next attempt
ReviewBackoff(jitter) ==
    /\ material_call.pc = "sleeping"
    /\ material_call' =
           [material_call EXCEPT !.slept = backoff_of(material_call.attempt, jitter),
                                 !.attempt = @ + 1,
                                 !.pc = "for"]
    /\ UNCHANGED <<state_vars, clock_vars, loop_vars, trade_vars, guard_vars, kill_switch_enabled,
                   caller_vars, settle_vars, scheduler, round_call, wait_call,
                   router_call, paper_call>>

ReviewNext ==
    \/ \E outcome \in AttemptOutcomes : ReviewAttempt(outcome)
    \/ \E jitter \in BackoffJitters : ReviewBackoff(jitter)

SpecReview == InitReview /\ [][ReviewNext]_vars /\ WF_vars(ReviewNext)

\* the attempts made are at most max_retries + 1 and, before the call ends,
\* all failed; a call that returned returns the result of its last attempt,
\* the only one that did not fail; a call that raised made every attempt,
\* at least one, and all failed
ReviewAttemptsBounded ==
    /\ material_call.calls <= Max(1, material_call.max_retries + 1)
    /\ material_call.pc \in {"for", "sleeping"} =>
           material_call.failed = material_call.calls
    /\ material_call.pc = "returned" =>
           /\ material_call.returned = material_call.calls
           /\ material_call.failed = material_call.calls - 1
    /\ material_call.pc = "raised" =>
           /\ material_call.calls = Max(1, material_call.max_retries + 1)
           /\ material_call.failed = material_call.calls

\* a call that ended makes no further attempt
ReviewEndIsFinal ==
    material_call.pc \in {"returned", "raised"} => material_call' = material_call

\* C38: ReviewClient.run makes at most max_retries + 1 attempts, at least
\* one also for a negative max_retries, returns the result of the first
\* attempt that succeeds and makes none after it, counts a timed-out attempt
\* as a failed one, raises RuntimeError only when every attempt has failed,
\* and ends in every case.
C38_RetriesBounded ==
    /\ []ReviewAttemptsBounded
    /\ [][ReviewEndIsFinal]_vars
    /\ <>(material_call.pc \in {"returned", "raised"})

\* with max_retries = 2 the first attempt timed out and the second returned
C38_ReturnedAfterTimeout ==
    /\ material_call.pc = "returned"
    /\ material_call.max_retries = 2
    /\ material_call.calls = 2
    /\ material_call.last_error = "timeout"

\* C39: in the round loop settle_round is never invoked without a
\* round-open reference: the tick that detects the close has applied the
\* live-tick fallback before the close check, supplying the reference
\* itself when the round had none, and no trade of the loop is closed
\* through the branch without a reference.
C39_ReferenceSetAtSettlement ==
    [][/\ TickAtClose =>
              /\ round_open_btc_price' # None
              /\ round_open_btc_price = None =>
                     /\ round_open_btc_price' \in BtcPrices
                     /\ round_open_btc_price_source' = "live_tick_fallback"
       /\ \A i \in NewPositions :
              paper_log'[i].type = "paper_trade_closed" =>
                  /\ paper_log'[i].event # "paper_trade_closed_without_round_open"
                  /\ paper_log'[i].btc_round_open_price # None
                  /\ paper_log'[i].outcome # "invalid"]_vars

\* a round whose lookups returned nothing was closed by its first tick,
\* which supplied the reference
C39_ClosedByFirstTick ==
    /\ pc = "waiting"
    /\ ticks = 1
    /\ last_round_executed = window.round_id
    /\ review_queue = <<window.round_id>>
    /\ round_open_btc_price \in BtcPrices
    /\ round_open_btc_price_source = "live_tick_fallback"

(***************************************************************************)
(* state.py with two tick writers: run_live_price_feed and run() each      *)
(* consume a TickerClient of their own on the same feed and call set_tick  *)
(* with each tick they receive, in the order of their own stream; which    *)
(* task receives its next tick first is not determined.  A reader takes    *)
(* snapshots.                                                              *)
(***************************************************************************)
\* run(): "agent_state.set_tick(tick.price, tick.ts)" for the next tick of
\* decision_ticker
OrchestratorSetTick == Method("orchestrator", TickOf(threads["orchestrator"].writes + 1))

TicksNext ==
    \/ SetTick
    \/ OrchestratorSetTick
    \/ Snapshot

SpecTicks == Init /\ [][TicksNext]_vars

\* the reader, holding the snapshot it took last, enters snapshot() again
NextSnapshotBegins ==
    /\ threads["reader"].pc = 0
    /\ threads'["reader"].pc = 1
    /\ threads["reader"].result # NoCall

\* C40: with the price feed task and the orchestrator both calling set_tick
\* from their own tick streams, latest_tick_ts never decreases from one
\* snapshot to a later one, under any interleaving of the two writers
\* (snapshot() holds the lock, so a snapshot that begins returns the
\* latest_tick_ts the state has at that moment).
C40_TickTimeNeverDecreases ==
    [][(NextSnapshotBegins /\ threads["reader"].result.latest_tick_ts # None) =>
           /\ agent_state.latest_tick_ts # None
           /\ agent_state.latest_tick_ts >= threads["reader"].result.latest_tick_ts]_vars

====
